---------------------------- MODULE Spec2Model ----------------------------
(***************************************************************************)
(* Model of the template-image-extractor editor: the region store          *)
(* (useCropEditor), the canvas gestures (CropCanvas, CropOverlay), the     *)
(* detection call and the export pipeline (imageUtils, Index).             *)
(*                                                                         *)
(* Display-space numbers are JavaScript numbers; pointer positions divided *)
(* by the zoom level are not integers, so every display-space quantity is  *)
(* an exact rational <<numerator, denominator>> in lowest terms with a     *)
(* positive denominator.  Floating-point rounding error is not modelled.   *)
(***************************************************************************)
EXTENDS Integers, Sequences, FiniteSets, TLC

(***************************************************************************)
(* Exact rational arithmetic for display-space numbers.                    *)
(***************************************************************************)
Abs(n) == IF n < 0 THEN -n ELSE n

RECURSIVE GCD(_, _)
GCD(a, b) == IF b = 0 THEN a ELSE GCD(b, a % b)

Q(n, d) ==
    LET g == GCD(Abs(n), Abs(d))
        s == IF d < 0 THEN -1 ELSE 1
    IN  <<(s * n) \div g, (s * d) \div g>>

RInt(n) == <<n, 1>>
RAdd(a, b) == Q(a[1] * b[2] + b[1] * a[2], a[2] * b[2])
RSub(a, b) == Q(a[1] * b[2] - b[1] * a[2], a[2] * b[2])
RLt(a, b) == a[1] * b[2] < b[1] * a[2]
RLe(a, b) == a[1] * b[2] <= b[1] * a[2]
RMin(a, b) == IF RLe(a, b) THEN a ELSE b
RMax(a, b) == IF RLe(a, b) THEN b ELSE a
RAbs(a) == <<Abs(a[1]), a[2]>>

(***************************************************************************)
(* Math.round of the rational num/den (den > 0): the nearest integer, a    *)
(* tie going up.                                                           *)
(***************************************************************************)
RoundFloor(num, den) == num \div den
MathRound(num, den) == (2 * num + den) \div (2 * den)

(***************************************************************************)
(* cropImage: the source rectangle read from the image.  v * (o / d) for   *)
(* a display-space value v = n/m is the rational (n * o) / (m * d).        *)
(***************************************************************************)
ScaleRoundFloor(v, o, d) == RoundFloor(v[1] * o, v[2] * d)
ScaleRound(v, o, d) == MathRound(v[1] * o, v[2] * d)

SourceRectEdges(r, ow, oh, dw, dh) ==
    [x      |-> ScaleRound(r.x, ow, dw),
     y      |-> ScaleRound(r.y, oh, dh),
     width  |-> ScaleRound(RAdd(r.x, r.width), ow, dw) - ScaleRound(r.x, ow, dw),
     height |-> ScaleRound(RAdd(r.y, r.height), oh, dh) - ScaleRound(r.y, oh, dh)]
SourceRect(r, ow, oh, dw, dh) ==
    [x      |-> ScaleRound(r.x, ow, dw),
     y      |-> ScaleRound(r.y, oh, dh),
     width  |-> ScaleRound(r.width, ow, dw),
     height |-> ScaleRound(r.height, oh, dh)]


(***************************************************************************)
(* Program constants.  Zoom levels are kept in hundredths (1.0 is 100), so *)
(* the zoom arithmetic of CropCanvas is integer arithmetic.                *)
(***************************************************************************)
MIN_ZOOM == 50
MAX_ZOOM == 400
ZOOM_STEP == 15
InitialZoom == 100
MinDrawSize == 20
MinResizeSize == 20
CropQuality == 85
TemplateQuality == 92
MinPercent == 2

(***************************************************************************)
(* Bounds of the model.                                                    *)
(***************************************************************************)
MaxRegions == 2
MaxListeners == 1
MaxGestures == 1
MaxZoomSteps == 1
MaxTime == 1
RandChoices == 1
MaxNum == 2
MaxDim == 3
MaxPixels == 2
MaxDetected == 2
MaxExports == 1
MaxReads == 2


(***************************************************************************)
(* Format selection.  imageData.data is the flat RGBA byte sequence of the *)
(* raster (0-based in the code, 1-based here); qualities are in hundredths.*)
(***************************************************************************)
HasTransparencyZeroOnly(data) ==
    \E i \in 0..(Len(data) - 1) : i >= 3 /\ (i - 3) % 4 = 0 /\ data[i + 1] = 0
HasTransparency(data) ==
    \E i \in 0..(Len(data) - 1) : i >= 3 /\ (i - 3) % 4 = 0 /\ data[i + 1] < 255

DetectOptimalFormat(data) == IF HasTransparency(data) THEN "png" ELSE "webp"

\* canvasToOptimizedBlob; a blob is described by its encoding.  An optional
\* argument is <<>> when absent and <<v>> when given, and so is the quality.
CanvasToOptimizedBlob(data, forceFormat, customQuality) ==
    LET format == IF forceFormat # <<>> THEN forceFormat[1]
                  ELSE DetectOptimalFormat(data)
    IN  [format    |-> format,
         quality   |-> IF format = "png" THEN <<>>
                       ELSE IF customQuality # <<>> THEN customQuality
                       ELSE <<CropQuality>>,
         extension |-> IF format = "jpeg" THEN "jpg" ELSE format]

\* The encoding cropImage and optimizeTemplate ask for.
EncodeCrop(data, forceFormat) == CanvasToOptimizedBlob(data, forceFormat, <<>>)
EncodeTemplate(data, forceFormat) ==
    CanvasToOptimizedBlob(data, forceFormat, <<TemplateQuality>>)

NoImage == "null"
NoId == <<"null">>
Undefined == <<>>

(***************************************************************************)
(* The images a user can upload: the data URL (name), the File object and  *)
(* its name, the natural size and the laid-out size at 100% zoom.  An      *)
(* opaque image has alpha 255 in every pixel, the other one alpha 128 in   *)
(* every pixel.  A string the code takes apart (a file name, a label) is a *)
(* sequence of characters.                                                 *)
(***************************************************************************)
ImageChoices ==
    { [name |-> "a", file |-> "sheet.jpg", opaque |-> TRUE,
       fileName |-> <<"s", "h", "e", "e", "t", ".", "j", "p", "g">>,
       naturalWidth |-> 1000, naturalHeight |-> 800,
       clientWidth |-> 500, clientHeight |-> 400],
      [name |-> "b", file |-> "icons.png", opaque |-> FALSE,
       fileName |-> <<"i", "c", "o", "n", "s", ".", "v", "2", ".", "p", "n", "g">>,
       naturalWidth |-> 220, naturalHeight |-> 160,
       clientWidth |-> 220, clientHeight |-> 160] }

ImageNamed(n) == CHOOSE i \in ImageChoices : i.name = n

(***************************************************************************)
(* Pointer positions, in client pixels relative to the viewport origin     *)
(* (clientX - rect.left, clientY - rect.top).                              *)
(***************************************************************************)
PointChoices == { <<10, 10>>, <<15, 12>>, <<30, 31>>, <<200, 150>> }

VARIABLES
    reads,                \* ImageUploader: FileReader reads not yet complete
    imageFile,            \* Index: the uploaded file
    imageSrc,             \* Index: its data URL
    originalDimensions,   \* Index: natural size of the image
    displayDimensions,    \* Index: laid-out size of the image
    regions,              \* useCropEditor: the ordered collection
    selectedId,           \* useCropEditor: the selected id, or NoId
    isDrawing,            \* CropCanvas
    drawStart,            \* CropCanvas: anchor point, display space
    drawRect,             \* CropCanvas: draft rectangle, or Undefined
    zoomLevel,            \* CropCanvas: hundredths
    imageDimensions,      \* CropCanvas: clientWidth/clientHeight of the img
    containerBounds,      \* CropCanvas: getBoundingClientRect() of the container
    overlayState,         \* CropOverlay, per mounted overlay: isDragging, isResizing
    listeners,            \* CropOverlay: window-level mousemove/mouseup listener pairs
    gestures,             \* number of overlay gestures started (model bound)
    isDetecting,          \* Index
    detectionProgress,    \* Index: in halves of a percent
    detectionStep,        \* Index
    detectCalls,          \* outstanding handleDetect calls, each with its closure
    progressInterval,     \* handleDetect: number of setInterval timers not yet cleared
    toast,                \* the toast shown last
    exports,              \* handleDownloadAll calls, each with its closure and zip
    downloads,            \* files offered by downloadBlob, oldest first
    pureIn,               \* input of the pure-function specifications
    pureOut,              \* their output
    lastOp                \* the store operation applied last (traced specifications)

vars == <<reads, imageFile, imageSrc, originalDimensions, displayDimensions, regions,
          selectedId, isDrawing, drawStart, drawRect, zoomLevel,
          imageDimensions, containerBounds, overlayState, listeners, gestures,
          isDetecting, detectionProgress, detectionStep, detectCalls,
          progressInterval, toast,
          exports, downloads, pureIn, pureOut, lastOp>>

indexVars == <<reads, imageFile, imageSrc, originalDimensions, displayDimensions>>
storeVars == <<regions, selectedId>>
canvasVars == <<isDrawing, drawStart, drawRect, zoomLevel,
                imageDimensions, containerBounds>>
overlayVars == <<overlayState, listeners, gestures>>
detectVars == <<isDetecting, detectionProgress, detectionStep, detectCalls,
                progressInterval>>
exportVars == <<exports, downloads>>
pureVars == <<pureIn, pureOut>>
restVars == <<detectVars, exportVars, pureVars, lastOp>>

ZeroDims == [width |-> 0, height |-> 0]
ZeroPoint == [x |-> RInt(0), y |-> RInt(0)]

(***************************************************************************)
(* useCropEditor                                                           *)
(***************************************************************************)
RegionIds(rs) == { rs[i].id : i \in 1..Len(rs) }

\* Date.now() never runs behind the time stamp of an id already handed out.
LastTime(rs) ==
    LET ts == { rs[i].id[2] : i \in { j \in 1..Len(rs) : rs[j].id[1] = "crop" } }
    IN  IF ts = {} THEN 0 ELSE CHOOSE t \in ts : \A u \in ts : u <= t

\* `crop-${Date.now()}-${Math.random()...}`
NewCropIds(rs) == { <<"crop", t, r>> : t \in LastTime(rs)..MaxTime, r \in 1..RandChoices }

\* An optional property of an object: Undefined when the object has none.
Field(obj, f) == IF f \in DOMAIN obj THEN obj[f] ELSE Undefined

\* addRegion: { ...region, id } appended to the collection
AddRegionFirst(rs, rect, id) ==
    <<[id |-> id, x |-> rect.x, y |-> rect.y, width |-> rect.width,
       height |-> rect.height, label |-> Field(rect, "label"),
       filename |-> Field(rect, "filename")]>> \o rs
AddRegion(rs, rect, id) ==
    Append(rs, [id |-> id, x |-> rect.x, y |-> rect.y, width |-> rect.width,
                height |-> rect.height, label |-> Field(rect, "label"),
                filename |-> Field(rect, "filename")])

\* { ...r, ...updates }: every property of updates, id included, overrides
Merge(r, updates) ==
    [f \in DOMAIN r |-> IF f \in DOMAIN updates THEN updates[f] ELSE r[f]]

UpdateRegionFirst(rs, id, updates) ==
    [i \in 1..Len(rs) |-> IF i = 1 THEN Merge(rs[i], updates) ELSE rs[i]]
UpdateRegion(rs, id, updates) ==
    [i \in 1..Len(rs) |-> IF rs[i].id = id THEN Merge(rs[i], updates) ELSE rs[i]]

FilterOut(rs, id) == SelectSeq(rs, LAMBDA r : r.id # id)

DeleteSelectionKeep(sel, id) == sel
DeleteSelection(sel, id) == IF sel = id THEN NoId ELSE sel

(***************************************************************************)
(* CropCanvas: geometry                                                    *)
(***************************************************************************)
\* (client - rect.left) / zoomLevel
ToDisplayUnzoomed(c, zoom) == RInt(c)
ToDisplay(c, zoom) == Q(c * 100, zoom)

ClampTo(v, hi) == RMax(RInt(0), RMin(v, RInt(hi)))

Mounted == imageSrc # NoImage
Loaded == Mounted /\ imageDimensions.width > 0 /\ imageDimensions.height > 0

\* The pointer is over the container, whose on-screen box is the image box
\* scaled by the zoom level.
OverContainer(p) ==
    /\ p[1] >= 0 /\ p[1] * 100 <= imageDimensions.width * zoomLevel
    /\ p[2] >= 0 /\ p[2] * 100 <= imageDimensions.height * zoomLevel

\* The pointer is over the overlay box of region r.
OverRegion(p, r) ==
    LET px == ToDisplay(p[1], zoomLevel)
        py == ToDisplay(p[2], zoomLevel)
    IN  /\ RLe(r.x, px) /\ RLe(px, RAdd(r.x, r.width))
        /\ RLe(r.y, py) /\ RLe(py, RAdd(r.y, r.height))

OverSomeRegion(p) == \E i \in 1..Len(regions) : OverRegion(p, regions[i])

DraftRect(start, cx, cy) ==
    [x      |-> RMin(start.x, cx),
     y      |-> RMin(start.y, cy),
     width  |-> RAbs(RSub(cx, start.x)),
     height |-> RAbs(RSub(cy, start.y))]

DrawGateAtLeast(rect) ==
    /\ RLe(RInt(MinDrawSize), rect.width)
    /\ RLe(RInt(MinDrawSize), rect.height)
DrawGate(rect) ==
    /\ RLt(RInt(MinDrawSize), rect.width)
    /\ RLt(RInt(MinDrawSize), rect.height)


\* getBoundingClientRect() of the container: the image box under scale(zoom).
BoundingRect(dims, zoom) ==
    [width |-> Q(dims.width * zoom, 100), height |-> Q(dims.height * zoom, 100)]

\* The zoom levels the specifications with regions explore.
ZoomRange ==
    (InitialZoom - MaxZoomSteps * ZOOM_STEP)..(InitialZoom + MaxZoomSteps * ZOOM_STEP)
AllZoom == MIN_ZOOM..MAX_ZOOM

Min(a, b) == IF a <= b THEN a ELSE b
Max(a, b) == IF a <= b THEN b ELSE a

(***************************************************************************)
(* CropOverlay components are keyed by region id: an overlay keeps its     *)
(* state while its id stays in the collection and mounts idle otherwise.   *)
(***************************************************************************)
IdleOverlay == [isDragging |-> FALSE, isResizing |-> "none"]

Overlays(rs, old) ==
    [id \in RegionIds(rs) |-> IF id \in DOMAIN old THEN old[id] ELSE IdleOverlay]

(***************************************************************************)
(* Index: upload, image load, start over                                   *)
(***************************************************************************)
CanvasMount ==
    /\ isDrawing' = FALSE
    /\ drawStart' = ZeroPoint
    /\ drawRect' = Undefined
    /\ zoomLevel' = InitialZoom
    /\ imageDimensions' = ZeroDims
    /\ containerBounds' = BoundingRect(ZeroDims, InitialZoom)

\* resetRegions
ResetRegionsKeepSelection(newRegions) ==
    /\ regions' = newRegions
    /\ selectedId' = selectedId
ResetRegionsAppend(newRegions) ==
    /\ regions' = regions \o newRegions
    /\ selectedId' = NoId
ResetRegions(newRegions) ==
    /\ regions' = newRegions
    /\ selectedId' = NoId

\* handleImageSelect, called by the onload of a FileReader.  CropCanvas
\* mounts with its initial state if no image was shown; a canvas already
\* mounted keeps its state and gets the new src.
HandleImageSelect(img) ==
    /\ imageFile' = img.file
    /\ imageSrc' = img.name
    /\ ResetRegions(<<>>)
    /\ overlayState' = Overlays(<<>>, overlayState)
    /\ IF imageSrc = NoImage THEN CanvasMount ELSE UNCHANGED canvasVars
    /\ toast' = "Image uploaded successfully!"
    /\ UNCHANGED <<originalDimensions, displayDimensions, listeners, gestures, restVars>>

\* ImageUploader.handleFile: starts reading the file.  The uploader is
\* rendered only while no image is shown.
HandleFile(img) ==
    /\ imageSrc = NoImage
    /\ Len(reads) < MaxReads
    /\ reads' = Append(reads, img.name)
    /\ UNCHANGED <<imageFile, imageSrc, originalDimensions, displayDimensions,
                   storeVars, canvasVars, overlayVars, toast, restVars>>

\* reader.onload of one of the reads, in any order
ReaderLoad(n) ==
    /\ n \in 1..Len(reads)
    /\ HandleImageSelect(ImageNamed(reads[n]))
    /\ reads' = SubSeq(reads, 1, n - 1) \o SubSeq(reads, n + 1, Len(reads))

\* handleFile and the onload of its read with nothing in between
UploadImage(img) ==
    /\ imageSrc = NoImage
    /\ reads = <<>>
    /\ HandleImageSelect(img)
    /\ UNCHANGED reads

\* CropCanvas.handleImageLoad and Index.handleDimensionsReady: the load event
\* of the img element, once for each src it is given
HandleImageLoad ==
    /\ Mounted
    /\ LET img == ImageNamed(imageSrc)
           client == [width |-> img.clientWidth, height |-> img.clientHeight]
       IN  /\ imageDimensions # client
           /\ imageDimensions' = client
           /\ originalDimensions' =
                  [width |-> img.naturalWidth, height |-> img.naturalHeight]
           /\ displayDimensions' = client
           /\ containerBounds' = BoundingRect(client, zoomLevel)
    /\ UNCHANGED <<reads, imageFile, imageSrc, storeVars, isDrawing, drawStart,
                   drawRect, zoomLevel, overlayVars, toast, restVars>>

\* handleReset; CropCanvas unmounts, window listeners stay registered.
HandleReset ==
    /\ Mounted
    /\ imageFile' = NoImage
    /\ imageSrc' = NoImage
    /\ ResetRegions(<<>>)
    /\ overlayState' = Overlays(<<>>, overlayState)
    /\ originalDimensions' = ZeroDims
    /\ displayDimensions' = ZeroDims
    /\ CanvasMount
    /\ toast' = "Reset complete"
    /\ UNCHANGED <<reads, listeners, gestures, restVars>>

(***************************************************************************)
(* CropCanvas: zoom                                                        *)
(***************************************************************************)
SetZoomDeselect(z, range) ==
    /\ Mounted
    /\ z \in range
    /\ z # zoomLevel
    /\ zoomLevel' = z
    /\ containerBounds' = BoundingRect(imageDimensions, z)
    /\ selectedId' = NoId
    /\ UNCHANGED <<indexVars, regions, isDrawing, drawStart, drawRect,
                   imageDimensions, overlayVars, toast, restVars>>
\* setZoomLevel, and the effect that re-reads the container's bounds
SetZoom(z, range) ==
    /\ Mounted
    /\ z \in range
    /\ z # zoomLevel
    /\ zoomLevel' = z
    /\ containerBounds' = BoundingRect(imageDimensions, z)
    /\ UNCHANGED <<indexVars, storeVars, isDrawing, drawStart, drawRect,
                   imageDimensions, overlayVars, toast, restVars>>

HandleZoomInUnclamped(range) == SetZoom(zoomLevel + ZOOM_STEP, range)
HandleZoomIn(range) == SetZoom(Min(MAX_ZOOM, zoomLevel + ZOOM_STEP), range)
HandleZoomOut(range) == SetZoom(Max(MIN_ZOOM, zoomLevel - ZOOM_STEP), range)
HandleResetZoom == SetZoom(InitialZoom, AllZoom)
\* Cmd/Ctrl + wheel; a plain wheel scrolls and changes no state.
HandleWheel(deltaY, range) ==
    SetZoom(Min(MAX_ZOOM, Max(MIN_ZOOM,
                zoomLevel + (IF deltaY > 0 THEN -ZOOM_STEP ELSE ZOOM_STEP))), range)

(***************************************************************************)
(* CropCanvas: drawing a new region                                        *)
(***************************************************************************)
\* handleMouseDown line 127: `if (isDetecting) return;`
DrawingSuppressedNever == FALSE
DrawingSuppressed == isDetecting

\* handleMouseDown on the container or the image (not on an overlay, whose
\* own handler stops propagation).
CanvasMouseDown(p) ==
    /\ ~DrawingSuppressed
    /\ Loaded
    /\ OverContainer(p)
    /\ ~OverSomeRegion(p)
    /\ Len(regions) < MaxRegions
    /\ selectedId' = NoId
    /\ LET x == ToDisplay(p[1], zoomLevel)
           y == ToDisplay(p[2], zoomLevel)
       IN  /\ isDrawing' = TRUE
           /\ drawStart' = [x |-> x, y |-> y]
           /\ drawRect' = [x |-> x, y |-> y, width |-> RInt(0), height |-> RInt(0)]
    /\ UNCHANGED <<indexVars, regions, zoomLevel, imageDimensions, containerBounds,
                   overlayVars, toast, restVars>>

\* handleMouseMove: the draft rectangle after a pointer-move at p
MovedDraft(p) ==
    LET currentX == ClampTo(ToDisplay(p[1], zoomLevel), imageDimensions.width)
        currentY == ClampTo(ToDisplay(p[2], zoomLevel), imageDimensions.height)
    IN  DraftRect(drawStart, currentX, currentY)

\* handleMouseUp: commits the draft if it passes the size gate
CommitsDraft == isDrawing /\ drawRect # Undefined /\ DrawGate(drawRect)

\* handleMouseUp line 174: `setIsDrawing(false)`
IsDrawingAfterMouseUpKept == isDrawing
IsDrawingAfterMouseUp == FALSE

(***************************************************************************)
(* CropOverlay: move and resize                                            *)
(***************************************************************************)
HandleChoices == {"nw", "ne", "sw", "se", "n", "s", "e", "w"}
HasW(h) == h \in {"nw", "sw", "w"}
HasE(h) == h \in {"ne", "se", "e"}
HasN(h) == h \in {"nw", "ne", "n"}
HasS(h) == h \in {"sw", "se", "s"}

RegionById(rs, id) == rs[CHOOSE i \in 1..Len(rs) : rs[i].id = id]

ResizeGateWidthOnly(w, h) == RLe(RInt(MinResizeSize), w)
ResizeGateHeightOnly(w, h) == RLe(RInt(MinResizeSize), h)
ResizeGate(w, h) ==
    RLe(RInt(MinResizeSize), w) /\ RLe(RInt(MinResizeSize), h)

\* The partial update one mousemove listener computes for a pointer at p, or
\* Undefined when the resize gate rejects the event.
ListenerUpdates(l, p) ==
    LET dx == RInt(p[1] - l.sx)
        dy == RInt(p[2] - l.sy)
    IN  IF l.handle # "move"
        THEN LET newX == IF HasW(l.handle) THEN RMax(RInt(0), RAdd(l.rx, dx)) ELSE l.rx
                 newY == IF HasN(l.handle) THEN RMax(RInt(0), RAdd(l.ry, dy)) ELSE l.ry
                 newW == IF HasE(l.handle) THEN RAdd(l.rw, dx)
                         ELSE IF HasW(l.handle) THEN RSub(l.rw, dx) ELSE l.rw
                 newH == IF HasS(l.handle) THEN RAdd(l.rh, dy)
                         ELSE IF HasN(l.handle) THEN RSub(l.rh, dy) ELSE l.rh
             IN  IF ResizeGate(newW, newH)
                 THEN [x |-> newX, y |-> newY, width |-> newW, height |-> newH]
                 ELSE Undefined
        ELSE LET maxX == RSub(l.bounds.width, l.regionWidth)
                 maxY == RSub(l.bounds.height, l.regionHeight)
             IN  [x |-> RMax(RInt(0), RMin(maxX, RAdd(l.rx, dx))),
                  y |-> RMax(RInt(0), RMin(maxY, RAdd(l.ry, dy)))]

\* Every registered mousemove listener handles the event, in registration order.
RECURSIVE ApplyListeners(_, _, _)
ApplyListeners(rs, ls, p) ==
    IF ls = <<>> THEN rs
    ELSE LET u == ListenerUpdates(Head(ls), p)
         IN  ApplyListeners(IF u = Undefined THEN rs
                            ELSE UpdateRegion(rs, Head(ls).id, u),
                            Tail(ls), p)

\* handleMouseDown of the overlay of region id: on the body (handle "move")
\* or on one of the resize handles, which are rendered only while selected.
OverlayMouseDown(id, h, p) ==
    /\ Mounted
    /\ id \in RegionIds(regions)
    /\ Len(listeners) < MaxListeners
    /\ gestures < MaxGestures
    /\ IF h = "move" THEN OverRegion(p, RegionById(regions, id)) ELSE selectedId = id
    /\ selectedId' = id
    /\ LET r == RegionById(regions, id)
           \* startPos is a ref of the overlay: listeners of the same overlay share it
           restarted ==
               [i \in 1..Len(listeners) |->
                   IF listeners[i].id = id
                   THEN [listeners[i] EXCEPT !.sx = p[1], !.sy = p[2], !.rx = r.x,
                                             !.ry = r.y, !.rw = r.width, !.rh = r.height]
                   ELSE listeners[i]]
       IN  listeners' = Append(restarted,
               [id |-> id, handle |-> h, sx |-> p[1], sy |-> p[2],
                rx |-> r.x, ry |-> r.y, rw |-> r.width, rh |-> r.height,
                regionWidth |-> r.width, regionHeight |-> r.height,
                bounds |-> containerBounds])
    /\ overlayState' =
           [overlayState EXCEPT ![id] =
               IF h = "move" THEN [@ EXCEPT !.isDragging = TRUE]
               ELSE [@ EXCEPT !.isResizing = h]]
    /\ gestures' = gestures + 1
    /\ UNCHANGED <<indexVars, regions, canvasVars, toast, restVars>>

(***************************************************************************)
(* Pointer events as the browser delivers them: the React handler of the   *)
(* container runs first (the event bubbles to it), then the window-level   *)
(* listeners of the overlays.                                              *)
(***************************************************************************)
\* mousemove at p.  While a draft is being drawn the pointer is over the
\* container (leaving it ends the gesture).
PointerMove(p) ==
    /\ isDrawing => (Loaded /\ OverContainer(p))
    /\ isDrawing \/ listeners # <<>>
    /\ drawRect' = IF isDrawing THEN MovedDraft(p) ELSE drawRect
    /\ regions' = ApplyListeners(regions, listeners, p)
    /\ UNCHANGED <<indexVars, selectedId, isDrawing, drawStart, zoomLevel,
                   imageDimensions, containerBounds, overlayVars, toast, restVars>>

\* The overlay listeners' handleMouseUp: flags cleared, listeners removed.
ReleasedOverlays(os) ==
    [id \in DOMAIN os |->
        IF \E i \in 1..Len(listeners) : listeners[i].id = id THEN IdleOverlay ELSE os[id]]

\* mouseup: CropCanvas.handleMouseUp (when the canvas is mounted), then the
\* listeners' handleMouseUp.
PointerUp ==
    /\ Mounted \/ listeners # <<>>
    /\ IF Mounted /\ CommitsDraft
       THEN \E id \in NewCropIds(regions) : regions' = AddRegion(regions, drawRect, id)
       ELSE regions' = regions
    /\ isDrawing' = IsDrawingAfterMouseUp
    /\ drawRect' = Undefined
    /\ overlayState' = Overlays(regions', ReleasedOverlays(overlayState))
    /\ listeners' = <<>>
    /\ UNCHANGED <<indexVars, selectedId, drawStart, zoomLevel, imageDimensions,
                   containerBounds, gestures, toast, restVars>>

\* mouseleave of the container: CropCanvas.handleMouseUp alone
CanvasMouseLeave ==
    /\ Mounted
    /\ isDrawing
    /\ IF CommitsDraft
       THEN \E id \in NewCropIds(regions) : regions' = AddRegion(regions, drawRect, id)
       ELSE regions' = regions
    /\ isDrawing' = IsDrawingAfterMouseUp
    /\ drawRect' = Undefined
    /\ overlayState' = Overlays(regions', overlayState)
    /\ UNCHANGED <<indexVars, selectedId, drawStart, zoomLevel, imageDimensions,
                   containerBounds, listeners, gestures, toast, restVars>>

(***************************************************************************)
(* Region list: delete and select                                          *)
(***************************************************************************)
\* deleteRegion, from the overlay's delete button or the thumbnail
DeleteRegionStep(id) ==
    /\ id \in RegionIds(regions)
    /\ regions' = FilterOut(regions, id)
    /\ selectedId' = DeleteSelection(selectedId, id)
    /\ overlayState' = Overlays(regions', overlayState)
    /\ UNCHANGED <<indexVars, canvasVars, listeners, gestures, toast, detectVars,
                   exportVars, pureVars>>

DeleteRegion(id) == DeleteRegionStep(id) /\ UNCHANGED lastOp

\* The same handler in a traced specification: lastOp records the call and
\* the selection it found.
TracedDeleteRegion(id) ==
    DeleteRegionStep(id) /\ lastOp' = <<"deleteRegion", id, selectedId>>

\* CropPreview onSelect: setSelectedId(region.id)
ThumbnailSelect(id) ==
    /\ id \in RegionIds(regions)
    /\ selectedId # id
    /\ selectedId' = id
    /\ UNCHANGED <<indexVars, regions, canvasVars, overlayVars, toast, restVars>>

(***************************************************************************)
(* Detection: the detect-images function and Index.handleDetect            *)
(***************************************************************************)
\* What the vision model returns for one region, in percent of the image.
RawRegionChoices ==
    { [x_percent |-> 10, y_percent |-> 10, width_percent |-> 40,
       height_percent |-> 30, label |-> <<<<"l", "o", "g", "o", ".", "p", "n", "g">>>>],
      [x_percent |-> 50, y_percent |-> 50, width_percent |-> 50,
       height_percent |-> 50, label |-> Undefined],
      [x_percent |-> 0, y_percent |-> 0, width_percent |-> 1,
       height_percent |-> 50, label |-> Undefined] }

RawLists == UNION { [1..n -> RawRegionChoices] : n \in 0..MaxDetected }

\* detect-images: the filter on the raw regions
KeepsRaw(r) ==
    /\ ~(r.width_percent < MinPercent \/ r.height_percent < MinPercent)
    /\ ~(\/ r.x_percent < 0 \/ r.x_percent > 100
         \/ r.y_percent < 0 \/ r.y_percent > 100
         \/ r.width_percent < 0 \/ r.width_percent > 100
         \/ r.height_percent < 0 \/ r.height_percent > 100)
    /\ ~(\/ r.x_percent + r.width_percent > 100
         \/ r.y_percent + r.height_percent > 100)

\* String(n) for a number n >= 0, as characters
RECURSIVE Digits(_)
Digits(n) ==
    LET digit == <<"0", "1", "2", "3", "4", "5", "6", "7", "8", "9">>
    IN  IF n < 10 THEN <<digit[n + 1]>> ELSE Digits(n \div 10) \o <<digit[(n % 10) + 1]>>

\* detect-images: the regions of the response, for a request with the given
\* width and height, answered at server time now.  The index (0-based in the
\* code) is the position among the regions the filter keeps.
DetectImages(raw, width, height, now) ==
    LET kept == SelectSeq(raw, KeepsRaw)
    IN  [i \in 1..Len(kept) |->
            [id       |-> <<"detected", i - 1, now>>,
             x        |-> RInt(MathRound(kept[i].x_percent * width, 100)),
             y        |-> RInt(MathRound(kept[i].y_percent * height, 100)),
             width    |-> RInt(MathRound(kept[i].width_percent * width, 100)),
             height   |-> RInt(MathRound(kept[i].height_percent * height, 100)),
             label    |-> IF kept[i].label # Undefined THEN kept[i].label
                          ELSE <<<<"I", "m", "a", "g", "e", " ">> \o Digits(i)>>,
             filename |-> Undefined]]

\* What supabase.functions.invoke resolves to for the call: { data, error }.
Responses(call) ==
    { [kind |-> "regions", regions |-> DetectImages(raw, call.width, call.height, now)] :
          raw \in RawLists, now \in 0..MaxTime }
    \cup { [kind |-> "payloadError", regions |-> <<>>],
           [kind |-> "invokeError", regions |-> <<>>] }

\* handleDetect up to the await.  The button is disabled without an image
\* and while a detection is running.
\* ActionBar line 87: `disabled={!hasImage || isDetecting}`; a disabled
\* button delivers no click.
DetectDisabledNoImageOnly == imageSrc = NoImage
DetectDisabled == imageSrc = NoImage \/ isDetecting

HandleDetect ==
    /\ Mounted
    /\ ~DetectDisabled
    /\ isDetecting' = TRUE
    /\ detectionProgress' = 0
    /\ detectionStep' = "Preparing image..."
    /\ detectCalls' = Append(detectCalls,
           [imageSrc |-> imageSrc, width |-> displayDimensions.width,
            height |-> displayDimensions.height, response |-> Undefined])
    /\ progressInterval' = progressInterval + 1
    /\ UNCHANGED <<indexVars, storeVars, canvasVars, overlayVars, toast,
                   exportVars, pureVars, lastOp>>

\* handleDetect: line 288, the response replaces the collection
DetectionReplacesAnyList(resp) == resp.kind = "regions"
DetectionReplaces(resp) == resp.kind = "regions" /\ Len(resp.regions) > 0

\* The function answers the oldest outstanding call; the response is in
\* flight until the promise of the call resolves.
DetectAnswer(resp) ==
    /\ detectCalls # <<>>
    /\ Head(detectCalls).response = Undefined
    /\ resp \in Responses(Head(detectCalls))
    /\ detectCalls' = <<[Head(detectCalls) EXCEPT !.response = resp]>> \o Tail(detectCalls)
    /\ UNCHANGED <<indexVars, storeVars, canvasVars, overlayVars, isDetecting,
                   detectionProgress, detectionStep, progressInterval, toast,
                   exportVars, pureVars, lastOp>>

\* handleDetect from the await on, for the call whose response has arrived.
\* clearInterval(progressInterval): lines 277 and 295.
ClearIntervalNever(timers) == timers
ClearInterval(timers) == timers - 1

\* The updater of the progress timer, lines 254-265, in halves of a percent.
ProgressStep(prev) ==
    IF prev < 40 THEN prev + 8
    ELSE IF prev < 140 THEN prev + 4
    ELSE IF prev < 180 THEN prev + 1
    ELSE prev

\* One tick of the 200 ms interval started by handleDetect.
ProgressTick ==
    /\ progressInterval > 0
    /\ detectionProgress' = ProgressStep(detectionProgress)
    /\ detectionStep' = IF detectionProgress < 40 THEN "Preparing image..."
                        ELSE IF detectionProgress < 140 THEN "Analyzing content..."
                        ELSE IF detectionProgress < 180 THEN "Detecting regions..."
                        ELSE detectionStep
    /\ UNCHANGED <<indexVars, storeVars, canvasVars, overlayVars, isDetecting,
                   detectCalls, progressInterval, toast, exportVars, pureVars,
                   lastOp>>

DetectResponse ==
    /\ detectCalls # <<>>
    /\ Head(detectCalls).response # Undefined
    /\ LET resp == Head(detectCalls).response
       IN  IF resp.kind = "invokeError"
           THEN /\ toast' = "Failed to detect images. Please try again."
                /\ UNCHANGED storeVars
           ELSE IF resp.kind = "payloadError"
           THEN /\ toast' = "data.error"
                /\ UNCHANGED storeVars
           ELSE IF DetectionReplaces(resp)
           THEN /\ ResetRegions(resp.regions)
                /\ toast' = "Selected " \o ToString(Len(resp.regions)) \o " image(s)!"
           ELSE /\ toast' = "No embedded images detected. Try adding regions manually."
                /\ UNCHANGED storeVars
    /\ detectCalls' = Tail(detectCalls)
    /\ detectionStep' = "Complete!"
    /\ overlayState' = Overlays(regions', overlayState)
    /\ isDetecting' = FALSE
    /\ detectionProgress' = 0
    /\ progressInterval' = ClearInterval(progressInterval)
    /\ UNCHANGED <<indexVars, canvasVars, listeners, gestures, exportVars, pureVars,
                   lastOp>>

(***************************************************************************)
(* Export: imageUtils.downloadAllAsZip and Index.handleDownloadAll         *)
(***************************************************************************)
\* toLowerCase of a character, as far as the /i flag matters to the letters
\* of png, jpg, jpeg and webp
Lower(c) ==
    CASE c = "P" -> "p" [] c = "N" -> "n" [] c = "G" -> "g" [] c = "J" -> "j"
      [] c = "E" -> "e" [] c = "W" -> "w" [] c = "B" -> "b" [] OTHER -> c

ImageExtensions == { <<"p", "n", "g">>, <<"j", "p", "g">>, <<"j", "p", "e", "g">>, <<"w", "e", "b", "p">> }

\* The extension e that /\.(png|jpg|jpeg|webp)$/i finds at the end of name
MatchesAtEnd(name, e) ==
    /\ Len(name) > Len(e)
    /\ name[Len(name) - Len(e)] = "."
    /\ \A k \in 1..Len(e) : Lower(name[Len(name) - Len(e) + k]) = e[k]

\* name.replace(/\.(png|jpg|jpeg|webp)$/i, '')
StripImageExtensionCaseSensitive(name) ==
    IF \E e \in ImageExtensions : Len(name) > Len(e) /\ SubSeq(name, Len(name) - Len(e), Len(name)) = <<".">> \o e
    THEN LET e == CHOOSE x \in ImageExtensions :
                      Len(name) > Len(x) /\ SubSeq(name, Len(name) - Len(x), Len(name)) = <<".">> \o x
         IN  SubSeq(name, 1, Len(name) - Len(e) - 1)
    ELSE name
StripImageExtension(name) ==
    IF \E e \in ImageExtensions : MatchesAtEnd(name, e)
    THEN LET e == CHOOSE x \in ImageExtensions : MatchesAtEnd(name, x)
         IN  SubSeq(name, 1, Len(name) - Len(e) - 1)
    ELSE name

\* name.replace(/\.[^/.]+$/, ""): the last dot and what follows it, if that
\* is at least one character and holds no slash
StripExtension(name) ==
    LET dots == { d \in 1..Len(name) : name[d] = "." }
    IN  IF dots = {} THEN name
        ELSE LET last == CHOOSE d \in dots : \A o \in dots : o <= d
             IN  IF last < Len(name) /\ \A k \in (last + 1)..Len(name) : name[k] # "/"
                 THEN SubSeq(name, 1, last - 1)
                 ELSE name

\* The extension of an encoding result, as characters
ExtensionChars(extension) ==
    CASE extension = "png" -> <<"p", "n", "g">> [] extension = "jpg" -> <<"j", "p", "g">>
      [] extension = "webp" -> <<"w", "e", "b", "p">>

\* originalFile.name
FileName(file) == (CHOOSE i \in ImageChoices : i.file = file).fileName

\* region.filename || region.label || `crop-${i + 1}` for the i-th region
\* (1-based here); an empty string counts as absent.
BaseName(region, i) ==
    IF region.filename # Undefined /\ region.filename[1] # <<>> THEN region.filename[1]
    ELSE IF region.label # Undefined /\ region.label[1] # <<>> THEN region.label[1]
    ELSE <<"c", "r", "o", "p", "-">> \o Digits(i)

\* zip.file(name, blob): an entry of that name is replaced in place.
ZipFile(zip, name, blob) ==
    IF \E j \in 1..Len(zip) : zip[j].name = name
    THEN [j \in 1..Len(zip) |->
             IF zip[j].name = name THEN [name |-> name, blob |-> blob] ELSE zip[j]]
    ELSE Append(zip, [name |-> name, blob |-> blob])

\* The pixels of a canvas, one pixel for each kind of pixel it holds.
ImagePixel(img) == IF img.opaque THEN <<0, 0, 0, 255>> ELSE <<0, 0, 0, 128>>

\* optimizeTemplate: the whole image drawn on a canvas of its natural size
TemplateData(img) == ImagePixel(img)

\* cropImage: the source rectangle drawn on a canvas of its size; what lies
\* outside the image stays transparent.
CropData(img, r) ==
    (IF r.x < img.naturalWidth /\ r.y < img.naturalHeight THEN ImagePixel(img) ELSE <<>>)
    \o (IF r.x + r.width > img.naturalWidth \/ r.y + r.height > img.naturalHeight
        THEN <<0, 0, 0, 0>> ELSE <<>>)

\* The source rectangle of the region a task is at.
\* downloadAllAsZip's `regions` parameter: the array handleDownloadAll's
\* closure held when the button was pressed.
ExportRegionsLive(task) == IF Len(regions) >= task.i THEN regions ELSE task.regions
ExportRegions(task) == task.regions

TaskRect(task) ==
    SourceRect(ExportRegions(task)[task.i], task.original.width, task.original.height,
               task.display.width, task.display.height)

\* A crop can be encoded only from a canvas that has pixels: with a display
\* dimension of 0 the scale is not a number, with a width or height of 0 the
\* canvas is empty, and getImageData / toBlob fail.
Encodable(task) ==
    task.pc \in {"crop", "single"} =>
        /\ task.display.width > 0 /\ task.display.height > 0
        /\ TaskRect(task).width > 0 /\ TaskRect(task).height > 0

\* handleDownloadAll up to the first await; the button is disabled without
\* regions.
HandleDownloadAll ==
    /\ imageSrc # NoImage
    /\ imageFile # NoImage
    /\ Len(regions) > 0
    /\ Len(exports) < MaxExports
    /\ toast' = "Creating ZIP file..."
    /\ exports' = Append(exports,
           [imageSrc |-> imageSrc, imageFile |-> imageFile, regions |-> regions,
            original |-> originalDimensions, display |-> displayDimensions,
            pc |-> "template", i |-> 0, outcome |-> "pending", zip |-> <<>>])
    /\ UNCHANGED <<indexVars, storeVars, canvasVars, overlayVars, detectVars,
                   downloads, pureVars, lastOp>>

\* handleDownloadSingle up to the await, from the download button of the
\* thumbnail of region id; regions.find gives the first region with that id.
HandleDownloadSingle(id) ==
    /\ imageSrc # NoImage
    /\ id \in RegionIds(regions)
    /\ Len(exports) < MaxExports
    /\ exports' = Append(exports,
           [imageSrc |-> imageSrc, imageFile |-> imageFile, regions |-> regions,
            original |-> originalDimensions, display |-> displayDimensions,
            pc |-> "single",
            i |-> CHOOSE i \in 1..Len(regions) :
                      /\ regions[i].id = id
                      /\ \A j \in 1..(i - 1) : regions[j].id # id,
            outcome |-> "pending", zip |-> <<>>])
    /\ UNCHANGED <<indexVars, storeVars, canvasVars, overlayVars, detectVars, toast,
                   downloads, pureVars, lastOp>>

\* The promise a task awaits (optimizeTemplate, cropImage, generateAsync)
\* settles: fulfilled or rejected.
AwaitSettles(k, o) ==
    /\ k \in 1..Len(exports)
    /\ exports[k].pc \in {"template", "crop", "zip", "single"}
    /\ exports[k].outcome = "pending"
    /\ o = "ok" => Encodable(exports[k])
    /\ exports' = [exports EXCEPT ![k].outcome = o]
    /\ UNCHANGED <<indexVars, storeVars, canvasVars, overlayVars, detectVars, toast,
                   downloads, pureVars, lastOp>>

\* A rejected await leaves downloadAllAsZip: the task is over.
AfterRejectionSkip(task) ==
    IF task.pc = "crop"
    THEN [task EXCEPT !.outcome = "pending",
                      !.pc = IF task.i = Len(task.regions) THEN "zip" ELSE "crop",
                      !.i = IF task.i = Len(task.regions) THEN task.i ELSE task.i + 1]
    ELSE [task EXCEPT !.pc = "failed"]
AfterRejection(task) == [task EXCEPT !.pc = "failed"]

\* A fulfilled await: the next statements of downloadAllAsZip, up to the
\* next await or the end.
AfterFulfilment(task) ==
    LET img == ImageNamed(task.imageSrc)
    IN  IF task.pc = "template"
        THEN LET result == EncodeTemplate(TemplateData(img), Undefined)
             IN  [task EXCEPT !.zip = ZipFile(@, <<"t", "e", "m", "p", "l", "a", "t", "e", ".">> \o ExtensionChars(result.extension),
                                                 result),
                              !.pc = IF Len(ExportRegions(task)) = 0 THEN "zip" ELSE "crop",
                              !.i = IF Len(ExportRegions(task)) = 0 THEN 0 ELSE 1,
                              !.outcome = "pending"]
        ELSE IF task.pc = "crop"
        THEN LET result == EncodeCrop(CropData(img, TaskRect(task)), Undefined)
                 cleanName == StripImageExtension(BaseName(ExportRegions(task)[task.i], task.i))
             IN  [task EXCEPT !.zip = ZipFile(@, cleanName \o <<".">> \o
                                                    ExtensionChars(result.extension),
                                                 result),
                              !.pc = IF task.i = Len(ExportRegions(task)) THEN "zip" ELSE "crop",
                              !.i = IF task.i = Len(ExportRegions(task)) THEN task.i ELSE task.i + 1,
                              !.outcome = "pending"]
        ELSE [task EXCEPT !.pc = "done"]

\* downloadAllAsZip and handleDownloadAll after an await has settled.
ExportResume(k) ==
    /\ k \in 1..Len(exports)
    /\ exports[k].pc \in {"template", "crop", "zip"}
    /\ exports[k].outcome # "pending"
    /\ LET task == exports[k]
           next == IF task.outcome = "error" THEN AfterRejection(task)
                   ELSE AfterFulfilment(task)
       IN  /\ exports' = [exports EXCEPT ![k] = next]
           /\ downloads' =
                  IF next.pc = "done"
                  THEN Append(downloads,
                           [name |-> StripExtension(FileName(task.imageFile)) \o
                                      <<"-", "c", "r", "o", "p", "p", "e", "d", ".", "z", "i", "p">>,
                            zip |-> task.zip, export |-> k])
                  ELSE downloads
           /\ toast' = IF next.pc = "done" THEN "ZIP file downloaded!"
                       ELSE IF next.pc = "failed" THEN "Failed to create ZIP file"
                       ELSE toast
    /\ UNCHANGED <<indexVars, storeVars, canvasVars, overlayVars, detectVars,
                   pureVars, lastOp>>

\* filename.endsWith(".png") ? filename : `${filename}.png`
SingleName(filename) ==
    IF Len(filename) >= 4 /\ SubSeq(filename, Len(filename) - 3, Len(filename)) = <<".", "p", "n", "g">>
    THEN filename
    ELSE filename \o <<".", "p", "n", "g">>

\* handleDownloadSingle after cropImage has settled.  downloadBlob is handed
\* the OptimizationResult cropImage resolves to, not its blob, and is not
\* awaited: URL.createObjectURL either rejects the object (the promise of
\* downloadBlob rejects unseen and no file is offered) or the file is
\* offered; the success toast is shown in both cases.
SingleResume(k) ==
    /\ k \in 1..Len(exports)
    /\ exports[k].pc = "single"
    /\ exports[k].outcome # "pending"
    /\ LET task == exports[k]
           result == EncodeCrop(CropData(ImageNamed(task.imageSrc), TaskRect(task)),
                                Undefined)
           filename == BaseName(task.regions[task.i], task.i)
       IN  IF task.outcome = "error"
           THEN /\ exports' = [exports EXCEPT ![k].pc = "singleFailed"]
                /\ toast' = "Failed to download image"
                /\ UNCHANGED downloads
           ELSE /\ exports' = [exports EXCEPT ![k].pc = "singleDone"]
                /\ toast' = "Image downloaded!"
                /\ \/ UNCHANGED downloads
                   \/ downloads' = Append(downloads,
                          [name |-> SingleName(filename), object |-> result,
                           export |-> k])
    /\ UNCHANGED <<indexVars, storeVars, canvasVars, overlayVars, detectVars,
                   pureVars, lastOp>>

EditorInit ==
    /\ reads = <<>>
    /\ imageFile = NoImage
    /\ imageSrc = NoImage
    /\ originalDimensions = ZeroDims
    /\ displayDimensions = ZeroDims
    /\ regions = <<>>
    /\ selectedId = NoId
    /\ isDrawing = FALSE
    /\ drawStart = ZeroPoint
    /\ drawRect = Undefined
    /\ zoomLevel = InitialZoom
    /\ imageDimensions = ZeroDims
    /\ containerBounds = BoundingRect(ZeroDims, InitialZoom)
    /\ overlayState = Overlays(<<>>, <<>>)
    /\ listeners = <<>>
    /\ gestures = 0
    /\ isDetecting = FALSE
    /\ detectionProgress = 0
    /\ detectionStep = ""
    /\ detectCalls = <<>>
    /\ progressInterval = 0
    /\ toast = ""
    /\ exports = <<>>
    /\ downloads = <<>>
    /\ lastOp = Undefined

Init ==
    /\ EditorInit
    /\ pureIn = Undefined
    /\ pureOut = Undefined

(***************************************************************************)
(* The drawing specification: one image, draw gestures at the zoom levels  *)
(* of ZoomRange, delete and select.                                        *)
(***************************************************************************)
DrawImages == { i \in ImageChoices : i.name = "a" }

NextDraw ==
    \/ \E img \in DrawImages : UploadImage(img)
    \/ HandleImageLoad
    \/ HandleZoomIn(ZoomRange)
    \/ HandleZoomOut(ZoomRange)
    \/ HandleResetZoom
    \/ \E d \in {-1, 1} : HandleWheel(d, ZoomRange)
    \/ \E p \in PointChoices : CanvasMouseDown(p)
    \/ \E p \in PointChoices : PointerMove(p)
    \/ PointerUp
    \/ CanvasMouseLeave
    \/ \E id \in RegionIds(regions) : DeleteRegion(id)
    \/ \E id \in RegionIds(regions) : ThumbnailSelect(id)

SpecDraw == Init /\ [][NextDraw]_vars

(***************************************************************************)
(* The editing specification: the drawing specification with the overlay   *)
(* gestures (move, resize) and with deleteRegion traced.                   *)
(***************************************************************************)
\* The pointer positions of the editing specification: the corners of one
\* region that passes the draw gate, and a point that brings a resize from
\* its south-east corner to a width of exactly MinResizeSize.
EditPoints == { <<10, 10>>, <<30, 31>>, <<200, 150>> }

NextEdit ==
    \/ \E img \in DrawImages : UploadImage(img)
    \/ HandleImageLoad
    \/ \E p \in EditPoints : CanvasMouseDown(p)
    \/ \E id \in RegionIds(regions), h \in HandleChoices \cup {"move"},
          p \in EditPoints : OverlayMouseDown(id, h, p)
    \/ \E p \in EditPoints : PointerMove(p)
    \/ PointerUp
    \/ CanvasMouseLeave
    \/ \E id \in RegionIds(regions) : TracedDeleteRegion(id)
    \/ \E id \in RegionIds(regions) : ThumbnailSelect(id)

SpecEdit == Init /\ [][NextEdit]_vars



(***************************************************************************)
(* The detection specification: regions drawn by hand, detection calls and *)
(* their responses.  The progress timer of handleDetect is not part of it. *)
(***************************************************************************)
DetectPoints == { <<10, 10>>, <<200, 150>> }

NextDetect ==
    \/ \E img \in DrawImages : UploadImage(img)
    \/ HandleImageLoad
    \/ HandleReset
    \/ \E p \in DetectPoints : CanvasMouseDown(p)
    \/ \E p \in DetectPoints : PointerMove(p)
    \/ PointerUp
    \/ \E id \in RegionIds(regions) : ThumbnailSelect(id)
    \/ HandleDetect
    \/ \E call \in { detectCalls[i] : i \in 1..Len(detectCalls) } :
          \E resp \in Responses(call) : DetectAnswer(resp)
    \/ DetectResponse

SpecDetect == Init /\ [][NextDetect]_vars

(***************************************************************************)
(* The export specification: regions drawn by hand and deleted, batch      *)
(* exports whose awaits are fulfilled or rejected.                         *)
(***************************************************************************)
ExportPoints == { <<10, 10>>, <<100, 100>>, <<200, 150>> }

NextExport ==
    \/ \E img \in DrawImages : UploadImage(img)
    \/ HandleImageLoad
    \/ \E p \in ExportPoints : CanvasMouseDown(p)
    \/ \E p \in ExportPoints : PointerMove(p)
    \/ PointerUp
    \/ \E id \in RegionIds(regions) : DeleteRegion(id)
    \/ HandleDownloadAll
    \/ \E k \in 1..Len(exports), o \in {"ok", "error"} : AwaitSettles(k, o)
    \/ \E k \in 1..Len(exports) : ExportResume(k)

SpecExport == Init /\ [][NextExport]_vars

(***************************************************************************)
(* The pure-function specifications: Init draws the inputs, one step       *)
(* applies the function.                                                   *)
(***************************************************************************)
\* Display-space inputs: positions on whole pixels, sizes on half pixels.
DisplayPositions == { RInt(n) : n \in 0..MaxNum }
DisplaySizes == { Q(n, 2) : n \in 0..(2 * MaxNum) }

ScenarioA ==
    [kind |-> "crop",
     region |-> [x |-> RInt(100), y |-> RInt(100), width |-> RInt(100),
                 height |-> RInt(100)],
     originalWidth |-> 1000, originalHeight |-> 800,
     displayWidth |-> 500, displayHeight |-> 400]

CropInputs ==
    { [kind |-> "crop",
       region |-> [x |-> x, y |-> y, width |-> w, height |-> h],
       originalWidth |-> ow, originalHeight |-> oh,
       displayWidth |-> dw, displayHeight |-> dh] :
         x \in DisplayPositions, y \in DisplayPositions,
         w \in DisplaySizes, h \in DisplaySizes,
         ow \in 1..MaxDim, oh \in 1..MaxDim, dw \in 1..MaxDim, dh \in 1..MaxDim }
    \cup { ScenarioA }

InitCrop ==
    /\ EditorInit
    /\ pureIn \in CropInputs
    /\ pureOut = Undefined

\* cropImage, lines 129-136: the rectangle handed to drawImage
CropImageRect ==
    /\ pureIn # Undefined
    /\ pureIn.kind = "crop"
    /\ pureOut = Undefined
    /\ pureOut' = SourceRect(pureIn.region, pureIn.originalWidth, pureIn.originalHeight,
                             pureIn.displayWidth, pureIn.displayHeight)
    /\ UNCHANGED <<indexVars, storeVars, canvasVars, overlayVars, detectVars, toast,
                   exportVars, pureIn, lastOp>>

SpecCrop == InitCrop /\ [][CropImageRect]_vars

ColorChoices == {0, 255}
AlphaChoices == {0, 254, 255}
PixelChoices ==
    { <<r, g, b, a>> : r \in ColorChoices, g \in ColorChoices, b \in ColorChoices,
                      a \in AlphaChoices }

RECURSIVE Flatten(_)
Flatten(pixels) == IF pixels = <<>> THEN <<>> ELSE Head(pixels) \o Flatten(Tail(pixels))

Rasters ==
    { Flatten(ps) : ps \in UNION { [1..n -> PixelChoices] : n \in 1..MaxPixels } }

FormatInputs ==
    { [kind |-> "format", data |-> d, purpose |-> u, forceFormat |-> f] :
        d \in Rasters, u \in {"crop", "template"},
        f \in {Undefined, <<"png">>, <<"jpeg">>, <<"webp">>} }

InitFormat ==
    /\ EditorInit
    /\ pureIn \in FormatInputs
    /\ pureOut = Undefined

\* canvasToOptimizedBlob as called by cropImage (line 151) and by
\* optimizeTemplate (line 115)
EncodeRaster ==
    /\ pureIn # Undefined
    /\ pureIn.kind = "format"
    /\ pureOut = Undefined
    /\ pureOut' = IF pureIn.purpose = "crop"
                   THEN EncodeCrop(pureIn.data, pureIn.forceFormat)
                   ELSE EncodeTemplate(pureIn.data, pureIn.forceFormat)
    /\ UNCHANGED <<indexVars, storeVars, canvasVars, overlayVars, detectVars, toast,
                   exportVars, pureIn, lastOp>>

SpecFormat == InitFormat /\ [][EncodeRaster]_vars


(***************************************************************************)
(* C1: the source rectangle of a crop is the display rectangle scaled per  *)
(* axis by original/display, each of x, y, width and height rounded to the *)
(* nearest integer on its own; source 1000x800, display 500x400, region    *)
(* {100,100,100,100} maps to {200,200,200,200}.                            *)
(***************************************************************************)
\* n is the integer nearest to v * o / d, a tie going up.
IsNearest(n, v, o, d) ==
    /\ (2 * n - 1) * v[2] * d <= 2 * v[1] * o
    /\ 2 * v[1] * o < (2 * n + 1) * v[2] * d

C1_SourceRectRounded ==
    (pureIn # Undefined /\ pureOut # Undefined /\ pureIn.kind = "crop") =>
        /\ IsNearest(pureOut.x, pureIn.region.x, pureIn.originalWidth, pureIn.displayWidth)
        /\ IsNearest(pureOut.y, pureIn.region.y, pureIn.originalHeight, pureIn.displayHeight)
        /\ IsNearest(pureOut.width, pureIn.region.width, pureIn.originalWidth,
                     pureIn.displayWidth)
        /\ IsNearest(pureOut.height, pureIn.region.height, pureIn.originalHeight,
                     pureIn.displayHeight)
        /\ (pureIn = ScenarioA =>
               pureOut = [x |-> 200, y |-> 200, width |-> 200, height |-> 200])

C1_Witness ==
    /\ pureIn = ScenarioA
    /\ pureOut = [x |-> 200, y |-> 200, width |-> 200, height |-> 200]

(***************************************************************************)
(* C10: mapping a display rectangle to the source rectangle and scaling it *)
(* back by display/original gives x, y, width and height that each differ  *)
(* from the display rectangle's by at most 1 pixel.                        *)
(***************************************************************************)
\* |n * d / o - v| <= 1
BackWithinOne(n, v, o, d) == Abs(n * d * v[2] - v[1] * o) <= o * v[2]
\* |n * d / o - v| <= d / (2 * o): half a source pixel
BackWithinHalfSourcePixel(n, v, o, d) == 2 * Abs(n * d * v[2] - v[1] * o) <= d * v[2]

\* The claim as stated, for every dimension pair: refuted.
C10_RoundTripWithinOne ==
    (pureIn # Undefined /\ pureOut # Undefined /\ pureIn.kind = "crop") =>
        /\ BackWithinOne(pureOut.x, pureIn.region.x, pureIn.originalWidth,
                         pureIn.displayWidth)
        /\ BackWithinOne(pureOut.y, pureIn.region.y, pureIn.originalHeight,
                         pureIn.displayHeight)
        /\ BackWithinOne(pureOut.width, pureIn.region.width, pureIn.originalWidth,
                         pureIn.displayWidth)
        /\ BackWithinOne(pureOut.height, pureIn.region.height, pureIn.originalHeight,
                         pureIn.displayHeight)

\* C10 as amended: the drift is at most half a source pixel, so it is within
\* 1 display pixel on an axis whose display size is at most twice its source
\* size.
C10_RoundTripHalfSourcePixel ==
    (pureIn # Undefined /\ pureOut # Undefined /\ pureIn.kind = "crop") =>
        LET r == pureIn.region
            ow == pureIn.originalWidth
            oh == pureIn.originalHeight
            dw == pureIn.displayWidth
            dh == pureIn.displayHeight
        IN  /\ BackWithinHalfSourcePixel(pureOut.x, r.x, ow, dw)
            /\ BackWithinHalfSourcePixel(pureOut.y, r.y, oh, dh)
            /\ BackWithinHalfSourcePixel(pureOut.width, r.width, ow, dw)
            /\ BackWithinHalfSourcePixel(pureOut.height, r.height, oh, dh)
            /\ dw <= 2 * ow =>
                   /\ BackWithinOne(pureOut.x, r.x, ow, dw)
                   /\ BackWithinOne(pureOut.width, r.width, ow, dw)
            /\ dh <= 2 * oh =>
                   /\ BackWithinOne(pureOut.y, r.y, oh, dh)
                   /\ BackWithinOne(pureOut.height, r.height, oh, dh)

\* Display twice the source: x = 1 maps to source 1 (0.5 rounds up) and back
\* to 2, a drift of exactly 1; the width 3/2 maps to 1 and back to 2.
C10_Witness ==
    /\ pureIn # Undefined /\ pureOut # Undefined /\ pureIn.kind = "crop"
    /\ pureIn.displayWidth = 2 * pureIn.originalWidth
    /\ pureIn.originalWidth = 1
    /\ pureIn.region.x = RInt(1)
    /\ pureOut.x = 1
    /\ pureIn.region.width = Q(3, 2)
    /\ pureOut.width = 1

(***************************************************************************)
(* C9: with no format override a raster with a pixel of alpha < 255 is     *)
(* encoded as png with no quality parameter, an all-opaque raster as webp  *)
(* with quality 0.85 (crop) or 0.92 (template); the extension is jpg for   *)
(* jpeg and the format name otherwise.                                     *)
(***************************************************************************)
\* Some pixel (bytes 4j-3..4j of the data) has alpha below 255.
SomePixelNotOpaque(data) == \E j \in 1..(Len(data) \div 4) : data[4 * j] < 255

DrawEnds == isDrawing /\ ~isDrawing'

\* The draft is over 20 display units on both axes.
DraftPasses ==
    /\ drawRect.width[1] > 20 * drawRect.width[2]
    /\ drawRect.height[1] > 20 * drawRect.height[2]

C2_DrawGate ==
    [][DrawEnds =>
          /\ drawRect' = Undefined
          /\ IF DraftPasses
             THEN /\ Len(regions') = Len(regions) + 1
                  /\ SubSeq(regions', 1, Len(regions)) = regions
             ELSE regions' = regions]_vars

\* At 85% zoom the drag from (10,10) to (30,31), 20 by 21 client pixels, has
\* committed a region 400/17 wide and 420/17 high.
C2_Witness ==
    /\ ~isDrawing
    /\ zoomLevel = 85
    /\ \E i \in 1..Len(regions) :
          /\ regions[i].width = Q(400, 17)
          /\ regions[i].height = Q(420, 17)

(***************************************************************************)
(* C3: after a draw gesture that passes the size gate the collection has   *)
(* exactly one more region, placed last, whose rectangle is the bounding   *)
(* box of the anchor and release points, with a newly assigned id, and the *)
(* selection equals that region's id.                                      *)
(***************************************************************************)
\* The anchor is a corner of rectangle r.
AnchoredAt(r, a) ==
    /\ r.x = a.x \/ RAdd(r.x, r.width) = a.x
    /\ r.y = a.y \/ RAdd(r.y, r.height) = a.y

\* What the gesture adds, apart from the selection.
DrawAppendsDraft ==
    /\ Len(regions') = Len(regions) + 1
    /\ SubSeq(regions', 1, Len(regions)) = regions
    /\ LET new == regions'[Len(regions')]
       IN  /\ new.x = drawRect.x /\ new.y = drawRect.y
           /\ new.width = drawRect.width /\ new.height = drawRect.height
           /\ AnchoredAt(new, drawStart)
           /\ new.id[1] = "crop"

\* The claim as stated: refuted, the new region is not selected.
C3_DrawSelectsNewRegion ==
    [][(DrawEnds /\ DraftPasses) =>
          /\ DrawAppendsDraft
          /\ selectedId' = regions'[Len(regions')].id]_vars

\* C3 as amended: the region is appended as claimed and the end of the
\* gesture leaves the selection as it was.
C3_DrawLeavesSelection ==
    [][(DrawEnds /\ DraftPasses) =>
          /\ DrawAppendsDraft
          /\ selectedId' = selectedId]_vars

\* The drag from (10,10) to (200,150) at 100% zoom has added the region
\* {10, 10, 190, 140} behind an earlier one, and nothing is selected.
C3_Witness ==
    /\ ~isDrawing
    /\ zoomLevel = 100
    /\ Len(regions) = 2
    /\ regions[2].x = RInt(10) /\ regions[2].y = RInt(10)
    /\ regions[2].width = RInt(190) /\ regions[2].height = RInt(140)
    /\ regions[2].id[1] = "crop"
    /\ selectedId = NoId

Deletes(id) ==
    /\ id \in RegionIds(regions)
    /\ id \notin RegionIds(regions')

C5_DeleteSelection ==
    [][\A id \in RegionIds(regions) :
          Deletes(id) =>
             /\ regions' = SelectSeq(regions, LAMBDA r : r.id # id)
             /\ selectedId = id => selectedId' = NoId
             /\ selectedId # id => selectedId' = selectedId]_vars

\* A region that was not the selected one has been deleted while another
\* region was selected, and that one is still selected.
C5_Witness ==
    /\ lastOp # Undefined
    /\ lastOp[1] = "deleteRegion"
    /\ lastOp[2] \notin RegionIds(regions)
    /\ lastOp[3] # NoId
    /\ lastOp[3] # lastOp[2]
    /\ selectedId = lastOp[3]
    /\ selectedId \in RegionIds(regions)

(***************************************************************************)
(* C6: a detection call changes the region store only when it succeeds     *)
(* with a non-empty region list; when it returns an empty list, an error   *)
(* payload, or the call itself fails, the collection and the selection are *)
(* exactly what they were before the response was handled.                 *)
(***************************************************************************)
\* The step runs handleDetect's continuation for the oldest call.
ResponseHandled == Len(detectCalls') < Len(detectCalls)

\* The response being handled carries at least one region.
SucceedsNonEmpty ==
    /\ Head(detectCalls).response.kind = "regions"
    /\ Len(Head(detectCalls).response.regions) > 0

C6_DetectionChangesOnlyOnRegions ==
    [][(ResponseHandled /\ ~SucceedsNonEmpty) =>
          /\ regions' = regions
          /\ selectedId' = selectedId]_vars

\* A response without regions has been handled and the hand-drawn region
\* and its selection are still there.
C6_Witness ==
    /\ ~isDetecting
    /\ detectionStep = "Complete!"
    /\ toast = "No embedded images detected. Try adding regions manually."
    /\ Len(regions) = 1
    /\ regions[1].id[1] = "crop"
    /\ selectedId = regions[1].id

(***************************************************************************)
(* C7: when detection returns k > 0 regions the store afterwards holds     *)
(* exactly those k regions in the returned order, none of the regions      *)
(* present before, and the selection is null.                              *)
(***************************************************************************)
C7_DetectionReplacesAll ==
    [][(ResponseHandled /\ SucceedsNonEmpty) =>
          LET returned == Head(detectCalls).response.regions
          IN  /\ Len(regions') = Len(returned)
              /\ \A i \in 1..Len(returned) : regions'[i] = returned[i]
              /\ selectedId' = NoId]_vars

\* Two regions returned for the 500 by 400 display are the whole collection,
\* in the returned order, and nothing is selected.
C7_Witness ==
    /\ ~isDetecting
    /\ toast = "Selected 2 image(s)!"
    /\ Len(regions) = 2
    /\ regions[1].id[1] = "detected" /\ regions[1].id[2] = 0
    /\ regions[1].x = RInt(50) /\ regions[1].y = RInt(40)
    /\ regions[1].width = RInt(200) /\ regions[1].height = RInt(120)
    /\ regions[1].label = <<<<"l", "o", "g", "o", ".", "p", "n", "g">>>>
    /\ regions[2].id[1] = "detected" /\ regions[2].id[2] = 1
    /\ regions[2].x = RInt(250) /\ regions[2].y = RInt(200)
    /\ regions[2].width = RInt(250) /\ regions[2].height = RInt(200)
    /\ regions[2].label = <<<<"I", "m", "a", "g", "e", " ", "2">>>>
    /\ selectedId = NoId


(***************************************************************************)
(* C8: in a batch export over N regions processed in collection order, if  *)
(* the template encode or the crop/encode of any region fails, no later    *)
(* region is processed, no archive is offered for download, a single       *)
(* failure is surfaced, and the region store still holds the same regions. *)
(***************************************************************************)
\* The step resumes task k after the await it was at has been rejected.
ResumesRejected(k) ==
    /\ exports[k].outcome = "error"
    /\ exports[k].pc # "failed"
    /\ exports'[k] # exports[k]

\* No file offered for download comes from a failed export.
NoArchiveFromFailed ==
    \A k \in 1..Len(exports) :
        exports[k].pc = "failed" =>
            \A d \in 1..Len(downloads) : downloads[d].export # k

C8_BatchFailureAborts ==
    /\ []NoArchiveFromFailed
    /\ [][/\ \A k \in 1..Len(exports) :
                /\ ResumesRejected(k) =>
                      /\ exports'[k].pc = "failed"
                      /\ exports'[k].i = exports[k].i
                      /\ exports'[k].zip = exports[k].zip
                      /\ downloads' = downloads
                      /\ toast' = "Failed to create ZIP file"
                /\ exports[k].pc = "failed" => exports'[k] = exports[k]
          /\ exports' # exports =>
                /\ regions' = regions
                /\ selectedId' = selectedId]_vars

\* Of two regions the first failed to encode: the export is over with only
\* the template in the archive, nothing was offered for download, the
\* failure is shown and the store holds the two regions.
C8_Witness ==
    /\ Len(exports) = 1
    /\ exports[1].pc = "failed"
    /\ Len(exports[1].regions) = 2
    /\ exports[1].i = 1
    /\ Len(exports[1].zip) = 1
    /\ exports[1].zip[1].name = <<"t", "e", "m", "p", "l", "a", "t", "e", ".", "w", "e", "b", "p">>
    /\ downloads = <<>>
    /\ toast = "Failed to create ZIP file"
    /\ regions = exports[1].regions


(***************************************************************************)
(* The store specification: the operations useCropEditor returns, called   *)
(* with arguments from small sets.  lastOp records the call of the step:   *)
(* the operation, the id passed or returned, and the other argument.       *)
(***************************************************************************)
\* Omit<CropRegion, "id">: a rectangle, with or without a label
StoreRects ==
    { [x |-> RInt(10), y |-> RInt(10), width |-> RInt(30), height |-> RInt(40)],
      [x |-> RInt(50), y |-> RInt(60), width |-> RInt(25), height |-> RInt(25),
       label |-> <<<<"h", "e", "r", "o">>>>] }

\* Partial<CropRegion>: any subset of the properties, id among them
StorePartials ==
    { <<>>,
      [x |-> RInt(5), y |-> RInt(7), width |-> RInt(20), height |-> RInt(21)],
      [label |-> <<<<"h", "e", "r", "o">>>>],
      [id |-> <<"crop", 0, 1>>] }

\* An id no region of the specification ever has
AbsentId == <<"crop", "none">>

\* CropRegion[]: the empty list and the lists detect-images answers with
StoreLists == { DetectImages(raw, 500, 400, 0) : raw \in RawLists }

StoreUnchanged ==
    UNCHANGED <<indexVars, canvasVars, listeners, gestures, toast, detectVars,
                exportVars, pureVars>>

StoreAddRegion(region, id) ==
    /\ Len(regions) < MaxRegions
    /\ id \in NewCropIds(regions)
    /\ regions' = AddRegion(regions, region, id)
    /\ overlayState' = Overlays(regions', overlayState)
    /\ lastOp' = [op |-> "addRegion", id |-> id, arg |-> region]
    /\ UNCHANGED selectedId
    /\ StoreUnchanged

StoreUpdateRegion(id, updates) ==
    /\ regions' = UpdateRegion(regions, id, updates)
    /\ overlayState' = Overlays(regions', overlayState)
    /\ lastOp' = [op |-> "updateRegion", id |-> id, arg |-> updates]
    /\ UNCHANGED selectedId
    /\ StoreUnchanged

StoreDeleteRegion(id) ==
    /\ DeleteRegionStep(id)
    /\ lastOp' = [op |-> "deleteRegion", id |-> id, arg |-> <<>>]

StoreSetSelectedId(id) ==
    /\ selectedId' = id
    /\ lastOp' = [op |-> "setSelectedId", id |-> id, arg |-> <<>>]
    /\ UNCHANGED <<regions, overlayState>>
    /\ StoreUnchanged

StoreResetRegions(newRegions) ==
    /\ ResetRegions(newRegions)
    /\ overlayState' = Overlays(regions', overlayState)
    /\ lastOp' = [op |-> "resetRegions", id |-> NoId, arg |-> newRegions]
    /\ StoreUnchanged

NextStore ==
    \/ \E region \in StoreRects, id \in NewCropIds(regions) : StoreAddRegion(region, id)
    \/ \E id \in RegionIds(regions) \cup {AbsentId}, updates \in StorePartials :
          StoreUpdateRegion(id, updates)
    \/ \E id \in RegionIds(regions) : StoreDeleteRegion(id)
    \/ \E id \in RegionIds(regions) \cup {NoId} : StoreSetSelectedId(id)
    \/ \E newRegions \in StoreLists : StoreResetRegions(newRegions)

SpecStore == Init /\ [][NextStore]_vars

(***************************************************************************)
(* C11: updateRegion(id, updates) gives every region with that id the      *)
(* properties of updates in place of its own and keeps its other           *)
(* properties; it leaves every other region, the order and the selection   *)
(* as they were; with an id no region has, or with an empty updates, the   *)
(* collection after the call is the collection before it.                  *)
(***************************************************************************)
C11_UpdateMerges ==
    [][ lastOp'.op = "updateRegion" =>
          LET id == lastOp'.id
              u  == lastOp'.arg
          IN  /\ selectedId' = selectedId
              /\ Len(regions') = Len(regions)
              /\ \A i \in 1..Len(regions) :
                    IF regions[i].id = id
                    THEN \A f \in {"id", "x", "y", "width", "height", "label", "filename"} :
                            regions'[i][f] = IF f \in DOMAIN u THEN u[f] ELSE regions[i][f]
                    ELSE regions'[i] = regions[i]
              /\ (\A i \in 1..Len(regions) : regions[i].id # id) => regions' = regions
              /\ u = <<>> => regions' = regions ]_vars

\* An update of the label of the second of two regions has been applied.
C11_Witness ==
    /\ lastOp # Undefined
    /\ lastOp.op = "updateRegion"
    /\ lastOp.arg = [label |-> <<<<"h", "e", "r", "o">>>>]
    /\ Len(regions) = 2
    /\ regions[2].id = lastOp.id
    /\ regions[1].id # lastOp.id
    /\ regions[2].label = <<<<"h", "e", "r", "o">>>>
    /\ regions[1].label = Undefined


(***************************************************************************)
(* C12: addRegion returns an id that no region of the collection has at    *)
(* the call, puts the new region (the argument with that id) last, and     *)
(* leaves the regions that were there and their order as they were.        *)
(***************************************************************************)
C12_AddReturnsFreshId ==
    [][ lastOp'.op = "addRegion" =>
          /\ \A i \in 1..Len(regions) : regions[i].id # lastOp'.id
          /\ Len(regions') = Len(regions) + 1
          /\ regions'[Len(regions')].id = lastOp'.id
          /\ \A f \in DOMAIN lastOp'.arg : regions'[Len(regions')][f] = lastOp'.arg[f]
          /\ \A i \in 1..Len(regions) : regions'[i] = regions[i]
          /\ selectedId' = selectedId ]_vars

(***************************************************************************)
(* C13: in every state the store reaches by addRegion, updateRegion,       *)
(* deleteRegion and resetRegions (called with what detection returns), no  *)
(* two regions of the collection have the same id.                         *)
(***************************************************************************)
C13_IdsUnique ==
    \A i \in 1..Len(regions), j \in 1..Len(regions) :
        i # j => regions[i].id # regions[j].id

(***************************************************************************)
(* C14: no operation of the store changes the id of a region that stays in *)
(* the collection: after updateRegion and setSelectedId every position has *)
(* the id it had, after addRegion every earlier position has, and after    *)
(* deleteRegion every region left is one of the regions before.            *)
(***************************************************************************)
C14_IdsStay ==
    [][ /\ lastOp'.op \in {"updateRegion", "setSelectedId"} =>
              /\ Len(regions') = Len(regions)
              /\ \A i \in 1..Len(regions) : regions'[i].id = regions[i].id
        /\ lastOp'.op = "addRegion" =>
              \A i \in 1..Len(regions) : regions'[i].id = regions[i].id
        /\ lastOp'.op = "deleteRegion" =>
              \A j \in 1..Len(regions') : \E i \in 1..Len(regions) :
                  regions'[j] = regions[i] ]_vars


(***************************************************************************)
(* The zoom specification: upload, image load, start over and the zoom     *)
(* controls of CropCanvas.  The levels the model lets setZoomLevel take    *)
(* reach one step beyond both limits, so that only the handlers' own       *)
(* Math.min / Math.max keep the level within them.                         *)
(***************************************************************************)
ZoomUniverse == (MIN_ZOOM - ZOOM_STEP)..(MAX_ZOOM + ZOOM_STEP)

NextZoom ==
    \/ \E img \in ImageChoices : UploadImage(img)
    \/ HandleImageLoad
    \/ HandleReset
    \/ HandleZoomIn(ZoomUniverse)
    \/ HandleZoomOut(ZoomUniverse)
    \/ HandleResetZoom
    \/ \E d \in {-1, 1} : HandleWheel(d, ZoomUniverse)

SpecZoom == Init /\ [][NextZoom]_vars

(***************************************************************************)
(* C15: the zoom level is always between 0.5 and 4.0 (50 and 400           *)
(* hundredths); zoom-in raises it by exactly 0.15, or to 4.0 where that    *)
(* would pass 4.0; zoom-out lowers it by exactly 0.15, or to 0.5 where     *)
(* that would pass 0.5; reset-zoom sets it to exactly 1.0.                 *)
(***************************************************************************)
C15_ZoomBoundsAndSteps ==
    /\ [](zoomLevel >= 50 /\ zoomLevel <= 400)
    /\ [][ /\ HandleZoomIn(ZoomUniverse) =>
                 zoomLevel' = IF zoomLevel + 15 <= 400 THEN zoomLevel + 15 ELSE 400
           /\ HandleZoomOut(ZoomUniverse) =>
                 zoomLevel' = IF zoomLevel - 15 >= 50 THEN zoomLevel - 15 ELSE 50
           /\ HandleResetZoom => zoomLevel' = 100 ]_vars

\* 3.95: reached only by a zoom-out clamped at 0.5 and 23 full steps up.
C15_Witness == Mounted /\ zoomLevel = 395


(***************************************************************************)
(* C16: a step that changes the zoom level of the canvas of an image       *)
(* (zoom-in, zoom-out, reset-zoom, Cmd/Ctrl + wheel) leaves the collection *)
(* as it was, with every region's id, x, y, width and height, and leaves   *)
(* the selection as it was.                                                *)
(***************************************************************************)
C16_ZoomLeavesRegions ==
    [][ (imageSrc # NoImage /\ imageSrc' = imageSrc /\ zoomLevel' # zoomLevel) =>
          /\ Len(regions') = Len(regions)
          /\ \A i \in 1..Len(regions) :
                \A f \in {"id", "x", "y", "width", "height"} :
                    regions'[i][f] = regions[i][f]
          /\ selectedId' = selectedId ]_vars

\* A region drawn at 100% from (10,10) to (200,150) is selected and the
\* canvas is at 115%.
C16_Witness ==
    /\ zoomLevel = 115
    /\ Len(regions) > 0
    /\ regions[1].x = RInt(10) /\ regions[1].y = RInt(10)
    /\ regions[1].width = RInt(190) /\ regions[1].height = RInt(140)
    /\ selectedId = regions[1].id


(***************************************************************************)
(* The naming specification: a loaded image with a collection whose labels *)
(* and filenames are drawn from small sets, exported as a batch or one     *)
(* region at a time.                                                       *)
(***************************************************************************)
\* The collections of the naming specification: up to MaxRegions regions,
\* each with the same rectangle, a label or none (among them logo.PNG,
\* crop-2, template and the empty string) and a filename or none.
NamedRegions ==
    UNION { [1..n -> { [x |-> RInt(10), y |-> RInt(10), width |-> RInt(190),
                        height |-> RInt(140), label |-> l, filename |-> f] :
                          l \in { Undefined,
                                  <<<<"l", "o", "g", "o", ".", "P", "N", "G">>>>,
                                  <<<<"I", "m", "a", "g", "e", " ", "1">>>>,
                                  <<<<"c", "r", "o", "p", "-", "2">>>>,
                                  <<<<"t", "e", "m", "p", "l", "a", "t", "e">>>>, << <<>> >> },
                          f \in { Undefined, <<<<"h", "e", "r", "o", ".", "j", "p", "e", "g">>>>, <<<<"l", "o", "g", "o", ".", "p", "n", "g">>>> } }] :
            n \in 0..MaxRegions }

WithIds(rs) ==
    [i \in 1..Len(rs) |->
        [id |-> <<"detected", i - 1, 0>>, x |-> rs[i].x, y |-> rs[i].y,
         width |-> rs[i].width, height |-> rs[i].height, label |-> rs[i].label,
         filename |-> rs[i].filename]]

InitNames ==
    \E img \in ImageChoices, rs \in NamedRegions :
        LET client == [width |-> img.clientWidth, height |-> img.clientHeight]
        IN  /\ reads = <<>>
            /\ imageFile = img.file
            /\ imageSrc = img.name
            /\ originalDimensions =
                   [width |-> img.naturalWidth, height |-> img.naturalHeight]
            /\ displayDimensions = client
            /\ regions = WithIds(rs)
            /\ selectedId = NoId
            /\ isDrawing = FALSE
            /\ drawStart = ZeroPoint
            /\ drawRect = Undefined
            /\ zoomLevel = InitialZoom
            /\ imageDimensions = client
            /\ containerBounds = BoundingRect(client, InitialZoom)
            /\ overlayState = Overlays(WithIds(rs), <<>>)
            /\ listeners = <<>>
            /\ gestures = 0
            /\ isDetecting = FALSE
            /\ detectionProgress = 0
            /\ detectionStep = ""
            /\ detectCalls = <<>>
            /\ progressInterval = 0
            /\ toast = ""
            /\ exports = <<>>
            /\ downloads = <<>>
            /\ lastOp = Undefined
            /\ pureIn = Undefined
            /\ pureOut = Undefined

NextNames ==
    \/ HandleDownloadAll
    \/ \E id \in RegionIds(regions) : HandleDownloadSingle(id)
    \/ \E k \in 1..Len(exports), o \in {"ok", "error"} : AwaitSettles(k, o)
    \/ \E k \in 1..Len(exports) : ExportResume(k)
    \/ \E k \in 1..Len(exports) : SingleResume(k)

SpecNames == InitNames /\ [][NextNames]_vars

(***************************************************************************)
(* C17: when a batch export has cropped and encoded the region at 1-based  *)
(* position i, the archive has an entry holding that encoding whose name   *)
(* is a stem, a dot and the extension of the encoding's format (jpg for    *)
(* jpeg); the stem is the region's filename if it has one, else its label  *)
(* if it has one, else crop-i, without a final .png, .jpg, .jpeg or .webp  *)
(* (in any letter case) if it ends in one.                                 *)
(***************************************************************************)
ResolvedName(r, i) ==
    IF r.filename \notin {Undefined, << <<>> >>} THEN r.filename[1]
    ELSE IF r.label \notin {Undefined, << <<>> >>} THEN r.label[1]
    ELSE <<"c", "r", "o", "p", "-">> \o Digits(i)

FormatExtension(format) ==
    CASE format = "jpeg" -> <<"j", "p", "g">> [] format = "png" -> <<"p", "n", "g">> [] format = "webp" -> <<"w", "e", "b", "p">>

IsStemOf(stem, base) ==
    \/ stem = base /\ ~\E e \in ImageExtensions : MatchesAtEnd(base, e)
    \/ \E e \in ImageExtensions :
          /\ MatchesAtEnd(base, e)
          /\ Len(stem) = Len(base) - Len(e) - 1
          /\ \A n \in 1..Len(stem) : stem[n] = base[n]

C17_BatchEntryNames ==
    [][ \A k \in 1..Len(exports) :
          (exports[k].pc = "crop" /\ exports[k].outcome = "ok"
             /\ exports'[k] # exports[k]) =>
            LET i    == exports[k].i
                base == ResolvedName(exports[k].regions[i], i)
                zip  == exports'[k].zip
            IN  \E j \in 1..Len(zip) :
                  LET ext == FormatExtension(zip[j].blob.format)
                      cut == Len(zip[j].name) - Len(ext) - 1
                  IN  /\ zip[j].blob.format =
                             IF ImageNamed(exports[k].imageSrc).opaque THEN "webp"
                             ELSE "png"
                      /\ cut >= 0
                      /\ SubSeq(zip[j].name, cut + 1, Len(zip[j].name)) = <<".">> \o ext
                      /\ IsStemOf(SubSeq(zip[j].name, 1, cut), base) ]_vars

\* A finished batch over two regions of the opaque image: the first has the
\* label logo.<<"p", "n", "g">> and no filename, the second the filename hero.jpeg and the
\* label Image 1.
C17_Witness ==
    /\ Len(exports) = 1
    /\ exports[1].pc = "done"
    /\ imageSrc = "a"
    /\ Len(regions) = 2
    /\ regions[1].label = <<<<"l", "o", "g", "o", ".", "P", "N", "G">>>> /\ regions[1].filename = Undefined
    /\ regions[2].label = <<<<"I", "m", "a", "g", "e", " ", "1">>>> /\ regions[2].filename = <<<<"h", "e", "r", "o", ".", "j", "p", "e", "g">>>>
    /\ Len(exports[1].zip) = 3
    /\ exports[1].zip[1].name = <<"t", "e", "m", "p", "l", "a", "t", "e", ".", "w", "e", "b", "p">>
    /\ exports[1].zip[2].name = <<"l", "o", "g", "o", ".", "w", "e", "b", "p">>
    /\ exports[1].zip[3].name = <<"h", "e", "r", "o", ".", "w", "e", "b", "p">>


(***************************************************************************)
(* C18: the archive of a batch export that succeeded over N regions has    *)
(* exactly N + 1 entries, whatever labels and filenames the regions have.  *)
(***************************************************************************)
C18_ArchiveHasAllEntries ==
    \A k \in 1..Len(exports) :
        exports[k].pc = "done" =>
            /\ Len(exports[k].zip) = Len(exports[k].regions) + 1
            /\ \E j \in 1..Len(downloads) :
                  /\ downloads[j].export = k
                  /\ Len(downloads[j].zip) = Len(exports[k].regions) + 1

(***************************************************************************)
(* C19: a single export whose crop succeeded offers the encoded crop for   *)
(* download under the name the batch export gives the region: the          *)
(* region's filename, else its label, else crop-i, with or without its     *)
(* image extension, then a dot and the extension of the format chosen for  *)
(* the crop (webp for an opaque crop, png for one with transparency).      *)
(***************************************************************************)
C19_SingleExportName ==
    \A k \in 1..Len(exports) :
        exports[k].pc = "singleDone" =>
            \E j \in 1..Len(downloads) :
                LET name == downloads[j].name
                    base == ResolvedName(exports[k].regions[exports[k].i], exports[k].i)
                    ext  == FormatExtension(
                                IF ImageNamed(exports[k].imageSrc).opaque THEN "webp"
                                ELSE "png")
                    cut  == Len(name) - Len(ext) - 1
                IN  /\ downloads[j].export = k
                    /\ cut >= 0
                    /\ SubSeq(name, cut + 1, Len(name)) = <<".">> \o ext
                    /\ \/ SubSeq(name, 1, cut) = base
                       \/ IsStemOf(SubSeq(name, 1, cut), base)


(***************************************************************************)
(* The image specification: files handed to the uploader, their reads,     *)
(* image load, start over, regions drawn by hand and batch exports.        *)
(***************************************************************************)
NextImage ==
    \/ \E img \in ImageChoices : HandleFile(img)
    \/ \E n \in 1..Len(reads) : ReaderLoad(n)
    \/ HandleImageLoad
    \/ HandleReset
    \/ \E p \in DetectPoints : CanvasMouseDown(p)
    \/ \E p \in DetectPoints : PointerMove(p)
    \/ PointerUp
    \/ HandleDownloadAll
    \/ \E k \in 1..Len(exports), o \in {"ok", "error"} : AwaitSettles(k, o)
    \/ \E k \in 1..Len(exports) : ExportResume(k)

SpecImage == Init /\ [][NextImage]_vars

(***************************************************************************)
(* C20: a step that changes the image shown (a new image selected, or      *)
(* start over) leaves the collection empty and the selection null; and     *)
(* the dimension pairs that the previews of the regions of an image and    *)
(* the exports of an image work with are that image's own (or still zero,  *)
(* before its load), never those of the image shown before.                *)
(***************************************************************************)
OwnDimensions(src, original, display) ==
    src # NoImage =>
        LET img == ImageNamed(src)
        IN  /\ original \in { ZeroDims, [width |-> img.naturalWidth,
                                        height |-> img.naturalHeight] }
            /\ display \in { ZeroDims, [width |-> img.clientWidth,
                                       height |-> img.clientHeight] }

C20_NewImageReplacesAll ==
    /\ [][ imageSrc' # imageSrc => (regions' = <<>> /\ selectedId' = NoId) ]_vars
    /\ [](/\ regions # <<>> =>
                OwnDimensions(imageSrc, originalDimensions, displayDimensions)
          /\ \A k \in 1..Len(exports) :
                OwnDimensions(exports[k].imageSrc, exports[k].original,
                              exports[k].display))


(***************************************************************************)
(* Claims about gestures while a detection call is outstanding             *)
(***************************************************************************)
\* C21: while a detection call is outstanding and no draw gesture is active,
\* no step starts a draw gesture (isDrawing stays FALSE), no step adds a
\* hand-drawn region, and the selection is cleared only by the handling of
\* the response, by leaving the editor or with the selected region's removal.
C21_NoDrawWhileDetecting ==
    [][ (detectCalls # <<>> /\ ~isDrawing) =>
            /\ ~isDrawing'
            /\ drawRect' = drawRect
            /\ \A i \in 1..Len(regions') :
                   regions'[i].id[1] = "crop" => regions'[i].id \in RegionIds(regions)
            /\ (selectedId # NoId /\ selectedId' = NoId) =>
                   \/ Len(detectCalls') < Len(detectCalls)
                   \/ imageSrc' = NoImage
                   \/ selectedId \notin RegionIds(regions')
      ]_vars

\* A detection call is outstanding over a loaded image with a selected region
\* and no draw gesture: a pointer-down on the canvas would otherwise draw.
C21_Witness ==
    /\ detectCalls # <<>>
    /\ isDetecting
    /\ Loaded
    /\ ~isDrawing
    /\ Len(regions) < MaxRegions
    /\ selectedId # NoId


(***************************************************************************)
(* The busy specification: the detection specification with the overlay    *)
(* gestures and the delete buttons, which stay mounted under the dimming   *)
(* layer (pointer-events-none) while a detection call is outstanding, with *)
(* thumbnail selection and start over.                                     *)
(***************************************************************************)
\* The responses are a failure, or one region answered at server time 0.
NextBusy ==
    \/ \E img \in DrawImages : UploadImage(img)
    \/ HandleImageLoad
    \/ \E p \in DetectPoints : CanvasMouseDown(p)
    \/ \E id \in RegionIds(regions), h \in {"move", "se"}, p \in DetectPoints :
          OverlayMouseDown(id, h, p)
    \/ \E p \in DetectPoints : PointerMove(p)
    \/ PointerUp
    \/ \E id \in RegionIds(regions) : DeleteRegion(id)
    \/ \E id \in RegionIds(regions) : ThumbnailSelect(id)
    \/ HandleReset
    \/ HandleDetect
    \/ \E call \in { detectCalls[i] : i \in 1..Len(detectCalls) } :
          \E resp \in { r \in Responses(call) :
                          \/ r.kind = "invokeError"
                          \/ /\ r.kind = "regions"
                             /\ Len(r.regions) = 1
                             /\ r.regions[1].id[3] = 0 } :
              DetectAnswer(resp)
    \/ DetectResponse

SpecBusy == Init /\ [][NextBusy]_vars

\* C22: between the start of a detection call and the handling of its
\* response (the image staying the same) every region of the collection
\* stays in it as it is: no step moves, resizes or deletes an existing region.
C22_ReadOnlyWhileDetecting ==
    [][ (detectCalls # <<>> /\ detectCalls' # <<>> /\ imageSrc' = imageSrc)
            => \A i \in 1..Len(regions) :
                   \E j \in 1..Len(regions') : regions'[j] = regions[i] ]_vars


(***************************************************************************)
(* Claims about the sizes of the regions in the collection                 *)
(***************************************************************************)
\* C23: in every reachable state every region of the collection has
\* width > 0 and height > 0, whether drawn, detected or resized.
C23_NoZeroAreaRegion ==
    \A i \in 1..Len(regions) :
        /\ regions[i].width[1] > 0
        /\ regions[i].height[1] > 0


(***************************************************************************)
(* CropPreview: the thumbnail of a region.  generatePreview computes its   *)
(* own source rectangle from the props and hands it to drawImage.          *)
(***************************************************************************)
GeneratePreviewRectFloor(r, ow, oh, dw, dh) ==
    [x      |-> ScaleRoundFloor(r.x, ow, dw),
     y      |-> ScaleRoundFloor(r.y, oh, dh),
     width  |-> ScaleRoundFloor(r.width, ow, dw),
     height |-> ScaleRoundFloor(r.height, oh, dh)]
GeneratePreviewRect(r, ow, oh, dw, dh) ==
    [x      |-> MathRound(r.x[1] * ow, r.x[2] * dw),
     y      |-> MathRound(r.y[1] * oh, r.y[2] * dh),
     width  |-> MathRound(r.width[1] * ow, r.width[2] * dw),
     height |-> MathRound(r.height[1] * oh, r.height[2] * dh)]

\* The effect of the CropPreview of region id runs with the current props;
\* pureOut records what it read.  Without display dimensions the scale is
\* not a number and nothing is drawn.
GeneratePreview(id) ==
    /\ Mounted
    /\ id \in RegionIds(regions)
    /\ displayDimensions.width > 0 /\ displayDimensions.height > 0
    /\ pureOut' = [region   |-> RegionById(regions, id),
                   original |-> originalDimensions,
                   display  |-> displayDimensions,
                   rect     |-> GeneratePreviewRect(RegionById(regions, id),
                                    originalDimensions.width, originalDimensions.height,
                                    displayDimensions.width, displayDimensions.height)]
    /\ UNCHANGED <<indexVars, storeVars, canvasVars, overlayVars, detectVars, toast,
                   exportVars, pureIn, lastOp>>

(***************************************************************************)
(* The rectangle specification: regions drawn at zoom 1 and below (their   *)
(* coordinates are then fractions), their thumbnails, and single and batch *)
(* exports.                                                                *)
(***************************************************************************)
NextRect ==
    \/ \E img \in DrawImages : UploadImage(img)
    \/ HandleImageLoad
    \/ HandleZoomOut(ZoomRange)
    \/ \E p \in DetectPoints : CanvasMouseDown(p)
    \/ \E p \in DetectPoints : PointerMove(p)
    \/ PointerUp
    \/ \E id \in RegionIds(regions) : GeneratePreview(id)
    \/ HandleDownloadAll
    \/ \E id \in RegionIds(regions) : HandleDownloadSingle(id)
    \/ \E k \in 1..Len(exports), o \in {"ok", "error"} : AwaitSettles(k, o)
    \/ \E k \in 1..Len(exports) : ExportResume(k)
    \/ \E k \in 1..Len(exports) : SingleResume(k)

SpecRect == Init /\ [][NextRect]_vars

\* C24: whenever a thumbnail has been rendered for a region under a
\* dimension pair and a single or batch export is cropping the same region
\* under the same pair, both read the same source rectangle, whose x, y,
\* width and height are integers.
C24_SameSourceRect ==
    pureOut # Undefined =>
        /\ \A f \in {"x", "y", "width", "height"} : pureOut.rect[f] \in Int
        /\ \A k \in 1..Len(exports) :
               ( /\ exports[k].pc \in {"crop", "single"}
                 /\ exports[k].regions[exports[k].i] = pureOut.region
                 /\ exports[k].original = pureOut.original
                 /\ exports[k].display = pureOut.display )
               => TaskRect(exports[k]) = pureOut.rect

\* A thumbnail and a batch export have read a region drawn at zoom 0.85,
\* whose source x is 23.53 (24 rounded, 23 truncated).
C24_Witness ==
    /\ pureOut # Undefined
    /\ pureOut.rect.x = 24
    /\ \E k \in 1..Len(exports) :
           /\ exports[k].pc = "crop"
           /\ exports[k].regions[exports[k].i] = pureOut.region
           /\ exports[k].original = pureOut.original
           /\ exports[k].display = pureOut.display


(***************************************************************************)
(* The gesture specification: one image, zoom in, draw, and move and       *)
(* resize gestures whose pointer may travel beyond the container.  The     *)
(* pointer leaving the browser window is an event no handler is registered *)
(* for: it changes no state of the program and is traced in lastOp.        *)
(***************************************************************************)
GesturePoints == { <<-10, 10>>, <<10, 10>>, <<200, 150>>, <<400, 300>> }

PointerLeaveWindow ==
    /\ Mounted \/ listeners # <<>>
    /\ lastOp' = <<"pointerLeaveWindow">>
    /\ UNCHANGED <<indexVars, storeVars, canvasVars, overlayVars, toast, detectVars,
                   exportVars, pureVars>>

NextGesture ==
    \/ \E img \in DrawImages : UploadImage(img)
    \/ HandleImageLoad
    \/ HandleZoomIn(ZoomRange)
    \/ \E p \in GesturePoints : CanvasMouseDown(p)
    \/ \E id \in RegionIds(regions), h \in {"move", "se", "w"}, p \in GesturePoints :
          OverlayMouseDown(id, h, p)
    \/ \E p \in GesturePoints : PointerMove(p)
    \/ PointerUp
    \/ PointerLeaveWindow
    \/ \E id \in RegionIds(regions) : ThumbnailSelect(id)
    \/ \E id \in RegionIds(regions) : DeleteRegion(id)

SpecGesture == Init /\ [][NextGesture]_vars


\* C25: whenever a step changes a region whose overlay is in a move gesture,
\* the region ends with 0 <= x <= displayWidth - width and
\* 0 <= y <= displayHeight - height, in display-space units at any zoom
\* level, and with the width and height it had.
C25_MoveStaysInside ==
    [][ \A i \in 1..Len(regions) :
            ( /\ regions[i].id \in DOMAIN overlayState
              /\ overlayState[regions[i].id].isDragging
              /\ i <= Len(regions')
              /\ regions'[i].id = regions[i].id
              /\ regions'[i] # regions[i] )
            => /\ RLe(RInt(0), regions'[i].x)
               /\ RLe(RAdd(regions'[i].x, regions'[i].width),
                      RInt(displayDimensions.width))
               /\ RLe(RInt(0), regions'[i].y)
               /\ RLe(RAdd(regions'[i].y, regions'[i].height),
                      RInt(displayDimensions.height))
               /\ regions'[i].width = regions[i].width
               /\ regions'[i].height = regions[i].height
      ]_vars


\* C26: a pointer-move at client position p during the one gesture under
\* way, at zoom level z, applies the delta (p - start) / z to the snapshot:
\* a resize by the se handle that is applied gives width = snapshot width +
\* dx / z and height = snapshot height + dy / z, and a move that leaves the
\* region strictly inside the image gives x = snapshot x + dx / z and
\* y = snapshot y + dy / z.
C26_DeltaDividedByZoom ==
    [][ \A p \in GesturePoints :
            ( /\ PointerMove(p)
              /\ Len(listeners) = 1
              /\ regions' # regions
              /\ \A i, j \in 1..Len(regions) : regions[i].id = regions[j].id => i = j )
            => LET l  == listeners[1]
                   dx == Q((p[1] - l.sx) * 100, zoomLevel)
                   dy == Q((p[2] - l.sy) * 100, zoomLevel)
               IN  \A i \in 1..Len(regions) :
                       regions[i].id = l.id =>
                           /\ l.handle = "se" =>
                                  /\ regions'[i].width = RAdd(l.rw, dx)
                                  /\ regions'[i].height = RAdd(l.rh, dy)
                           /\ ( /\ l.handle = "move"
                                /\ RLt(RInt(0), regions'[i].x)
                                /\ RLt(RInt(0), regions'[i].y)
                                /\ RLt(RAdd(regions'[i].x, regions'[i].width),
                                       RInt(displayDimensions.width))
                                /\ RLt(RAdd(regions'[i].y, regions'[i].height),
                                       RInt(displayDimensions.height)) )
                              => /\ regions'[i].x = RAdd(l.rx, dx)
                                 /\ regions'[i].y = RAdd(l.ry, dy)
      ]_vars


(***************************************************************************)
(* Claims about resize gestures                                            *)
(***************************************************************************)
\* C27: a pointer-move at p during the one resize gesture under way (zoom
\* level 1) gives the candidate width snapshot width + dx for an east
\* handle, - dx for a west handle, and the candidate height likewise.  If
\* either is below 20 the step changes no region; otherwise the region gets
\* exactly the candidate width and height.
C27_ResizeGate ==
    [][ \A p \in EditPoints :
            ( /\ PointerMove(p)
              /\ Len(listeners) = 1
              /\ listeners[1].handle # "move"
              /\ \A i, j \in 1..Len(regions) : regions[i].id = regions[j].id => i = j )
            => LET l  == listeners[1]
                   dx == RInt(p[1] - l.sx)
                   dy == RInt(p[2] - l.sy)
                   cw == IF HasE(l.handle) THEN RAdd(l.rw, dx)
                         ELSE IF HasW(l.handle) THEN RSub(l.rw, dx) ELSE l.rw
                   ch == IF HasS(l.handle) THEN RAdd(l.rh, dy)
                         ELSE IF HasN(l.handle) THEN RSub(l.rh, dy) ELSE l.rh
               IN  IF RLt(cw, RInt(20)) \/ RLt(ch, RInt(20))
                   THEN regions' = regions
                   ELSE \A i \in 1..Len(regions) :
                            regions[i].id = l.id =>
                                /\ regions'[i].width = cw
                                /\ regions'[i].height = ch
      ]_vars

\* A resize by the se handle from a snapshot of 190 by 140 has been applied
\* at a width of exactly 20.
C27_Witness ==
    /\ Len(listeners) = 1
    /\ listeners[1].handle = "se"
    /\ listeners[1].rw = RInt(190)
    /\ \E i \in 1..Len(regions) :
           /\ regions[i].id = listeners[1].id
           /\ regions[i].width = RInt(20)
           /\ regions[i].height = RInt(21)


\* C28: a pointer-move that the one resize gesture under way applies moves
\* only the edges its handle names: without w in the handle x stays at the
\* snapshot, with w the right edge x + width does; without n y stays, with n
\* the bottom edge y + height does; a handle that names no horizontal edge
\* keeps the width, one that names no vertical edge the height; and x and y
\* are not negative.
C28_OnlyNamedEdgesMove ==
    [][ \A p \in GesturePoints :
            ( /\ PointerMove(p)
              /\ Len(listeners) = 1
              /\ listeners[1].handle # "move"
              /\ regions' # regions
              /\ \A i, j \in 1..Len(regions) : regions[i].id = regions[j].id => i = j )
            => LET l == listeners[1]
               IN  \A i \in 1..Len(regions) :
                       regions[i].id = l.id =>
                           LET r == regions'[i]
                           IN  /\ IF HasW(l.handle)
                                  THEN RAdd(r.x, r.width) = RAdd(l.rx, l.rw)
                                  ELSE r.x = l.rx
                               /\ IF HasN(l.handle)
                                  THEN RAdd(r.y, r.height) = RAdd(l.ry, l.rh)
                                  ELSE r.y = l.ry
                               /\ (~HasW(l.handle) /\ ~HasE(l.handle)) => r.width = l.rw
                               /\ (~HasN(l.handle) /\ ~HasS(l.handle)) => r.height = l.rh
                               /\ RLe(RInt(0), r.x)
                               /\ RLe(RInt(0), r.y)
      ]_vars


(***************************************************************************)
(* Claims about the interaction state: Idle is no draft being drawn and    *)
(* no overlay dragging or resizing.                                        *)
(***************************************************************************)
\* C29: a pointer-up and the pointer leaving the window both end every move
\* and resize gesture (every overlay idle, no window-level listener left);
\* in Idle no listener is registered; and a pointer-move in Idle changes no
\* region.
C29_GesturesEnd ==
    /\ []( ( /\ ~isDrawing
             /\ \A id \in DOMAIN overlayState : overlayState[id] = IdleOverlay )
           => listeners = <<>> )
    /\ [][ ( \/ PointerUp
             \/ lastOp' = <<"pointerLeaveWindow">> /\ lastOp' # lastOp )
           => /\ \A id \in DOMAIN overlayState' : overlayState'[id] = IdleOverlay
              /\ listeners' = <<>> ]_vars
    /\ [][ ( /\ ~isDrawing
             /\ \A id \in DOMAIN overlayState : overlayState[id] = IdleOverlay
             /\ \E p \in GesturePoints : PointerMove(p) )
           => regions' = regions ]_vars


\* C30: in every reachable state at most one gesture is active: no overlay
\* is dragging or resizing while a draft is being drawn, at most one overlay
\* is dragging or resizing, and none is doing both.
C30_OneGestureAtATime ==
    /\ isDrawing => \A id \in DOMAIN overlayState : overlayState[id] = IdleOverlay
    /\ \A a, b \in DOMAIN overlayState :
           (overlayState[a] # IdleOverlay /\ overlayState[b] # IdleOverlay) => a = b
    /\ \A id \in DOMAIN overlayState :
           ~(overlayState[id].isDragging /\ overlayState[id].isResizing # "none")


(***************************************************************************)
(* Claims about pointer-down                                               *)
(***************************************************************************)
\* C31: a pointer-down at client position p on the empty canvas leaves the
\* selection null, a draft being drawn and the anchor at p / zoomLevel; a
\* pointer-down at p on the body or a handle of region id leaves the
\* selection at id and registers a gesture whose snapshot is the region's x,
\* y, width and height and the client position p.
C31_PointerDownSelectsTarget ==
    [][ /\ \A p \in GesturePoints :
               CanvasMouseDown(p) =>
                   /\ selectedId' = NoId
                   /\ isDrawing'
                   /\ drawStart'.x[1] * zoomLevel = p[1] * 100 * drawStart'.x[2]
                   /\ drawStart'.y[1] * zoomLevel = p[2] * 100 * drawStart'.y[2]
        /\ \A p \in GesturePoints, h \in {"move", "se", "w"} :
               \A i \in 1..Len(regions) :
                   ( /\ OverlayMouseDown(regions[i].id, h, p)
                     /\ \A j \in 1..Len(regions) : regions[j].id = regions[i].id => j = i )
                   => /\ selectedId' = regions[i].id
                      /\ Len(listeners') = Len(listeners) + 1
                      /\ LET l == listeners'[Len(listeners')]
                         IN  /\ l.id = regions[i].id /\ l.handle = h
                             /\ l.sx = p[1] /\ l.sy = p[2]
                             /\ l.rx = regions[i].x /\ l.ry = regions[i].y
                             /\ l.rw = regions[i].width /\ l.rh = regions[i].height
                      /\ regions' = regions
      ]_vars

\* At zoom 1.15 a pointer-down at client (200, 150) on the empty canvas, with
\* a region in the collection, has anchored a draft at (173.9, 130.4).
C31_Witness ==
    /\ zoomLevel = 115
    /\ isDrawing
    /\ regions # <<>>
    /\ selectedId = NoId
    /\ drawStart = [x |-> Q(20000, 115), y |-> Q(15000, 115)]
    /\ drawRect # Undefined
    /\ drawRect.width = RInt(0)


(***************************************************************************)
(* Claims about detection calls and the image                              *)
(***************************************************************************)
\* C32: when the response of a detection call is handled and the loaded
\* image is no longer the one the call was started for, the step leaves the
\* region collection and the selection as they are.
C32_LateResponseDropped ==
    [][ ( /\ detectCalls # <<>>
          /\ detectCalls' = Tail(detectCalls)
          /\ Head(detectCalls).imageSrc # imageSrc )
        => /\ regions' = regions
           /\ selectedId' = selectedId ]_vars


\* C33: in every reachable state without a loaded image the region
\* collection is empty and the selection is null.
C33_NoImageNoRegions ==
    imageSrc = NoImage => (regions = <<>> /\ selectedId = NoId)


(***************************************************************************)
(* Claims about the selection                                              *)
(***************************************************************************)
\* C34: in every reachable state the selection is null or the id of a
\* region of the collection.
C34_SelectionInCollection ==
    selectedId = NoId \/ \E i \in 1..Len(regions) : regions[i].id = selectedId

\* A detected region is selected while a second detection call is
\* outstanding: its response will replace the collection.
C34_Witness ==
    /\ selectedId # NoId
    /\ selectedId[1] = "detected"
    /\ detectCalls # <<>>


C36_OneDetectionCall ==
    /\ [](Len(detectCalls) <= 1 /\ (isDetecting <=> detectCalls # <<>>))
    /\ [][isDetecting => Len(detectCalls') <= Len(detectCalls)]_vars

\* A call is outstanding for an image that was discarded by "start over"; a
\* new image is uploaded and not yet measured.
C36_Witness ==
    /\ Len(detectCalls) = 1
    /\ isDetecting
    /\ imageSrc # NoImage
    /\ detectCalls[1].width # displayDimensions.width
    /\ displayDimensions.width = 0


(***************************************************************************)
(* The progress specification: one detection after another, each with its  *)
(* progress timer, on an image that may be discarded and uploaded again.   *)
(* The promise of supabase.functions.invoke settles, and the continuation  *)
(* of a settled promise runs.                                              *)
(***************************************************************************)
ProgressPoint == <<10, 10>>

DetectSettles ==
    \E call \in { detectCalls[i] : i \in 1..Len(detectCalls) } :
        \E resp \in { [kind |-> "regions",
                        regions |-> DetectImages(raw, call.width, call.height, 0)] :
                          raw \in { l \in RawLists : Len(l) <= 1 } }
                    \cup { [kind |-> "payloadError", regions |-> <<>>],
                           [kind |-> "invokeError", regions |-> <<>>] } :
            DetectAnswer(resp)

NextProgress ==
    \/ \E img \in DrawImages : UploadImage(img)
    \/ HandleImageLoad
    \/ HandleReset
    \/ HandleDetect
    \/ ProgressTick
    \/ DetectSettles
    \/ DetectResponse

SpecProgress ==
    /\ Init
    /\ [][NextProgress]_vars
    /\ WF_vars(DetectSettles)
    /\ WF_vars(DetectResponse)

\* C37: a detection call that has started is eventually handled; whenever no
\* call is outstanding isDetecting is false and no progress timer is left
\* running, whichever way the call ended; a pointer-down on the bare image
\* then starts a draft; and the simulated progress never exceeds 90 percent.
C37_DetectionFinishes ==
    /\ (detectCalls # <<>>) ~> (detectCalls = <<>>)
    /\ [](detectCalls = <<>> => (~isDetecting /\ progressInterval = 0))
    /\ [][ (detectCalls # <<>> /\ detectCalls' = Tail(detectCalls)) =>
             /\ ~isDetecting'
             /\ progressInterval' = 0
             /\ Head(detectCalls).response.kind = "invokeError" =>
                    toast' = "Failed to detect images. Please try again." ]_vars
    /\ []((detectCalls = <<>> /\ Loaded /\ regions = <<>>) =>
             ENABLED CanvasMouseDown(ProgressPoint))
    /\ [](detectionProgress <= 180)

\* A call that ended in a thrown failure has been handled, on the image it
\* was started for, and a pointer-down on the image would start a draft.
C37_Witness ==
    /\ detectCalls = <<>>
    /\ ~isDetecting
    /\ progressInterval = 0
    /\ detectionStep = "Complete!"
    /\ toast = "Failed to detect images. Please try again."
    /\ Loaded
    /\ ENABLED CanvasMouseDown(ProgressPoint)


(***************************************************************************)
(* Claims about the end of a draw gesture                                  *)
(***************************************************************************)
\* C38: a step taken while no draft is being drawn adds no region; a step
\* taken while one is being drawn adds at most one, and the step that adds
\* it ends the gesture; a pointer-up or the pointer leaving the canvas
\* leaves the canvas idle; and an idle canvas holds no draft.
C38_OneRegionPerGesture ==
    /\ [](~isDrawing => drawRect = Undefined)
    /\ [][ /\ ~isDrawing => RegionIds(regions') \subseteq RegionIds(regions)
           /\ isDrawing =>
                 /\ Len(regions') <= Len(regions) + 1
                 /\ Cardinality(RegionIds(regions') \ RegionIds(regions)) <= 1
                 /\ RegionIds(regions') \ RegionIds(regions) # {} =>
                        (~isDrawing' /\ drawRect' = Undefined)
           /\ (PointerUp \/ CanvasMouseLeave) => (~isDrawing' /\ drawRect' = Undefined)
         ]_vars

\* A second region has been added by a second gesture, which thereby ended.
C38_Witness ==
    /\ Len(regions) = 2
    /\ ~isDrawing
    /\ drawRect = Undefined
    /\ \A i \in 1..Len(regions) : regions[i].id[1] = "crop"

=============================================================================
